---- MODULE Spec2Model ----
(***************************************************************************)
(* A model of netwrangler: the netplan compiler (Netplan.Compile), the     *)
(* layout validator (Layout.Validate, Interface.validate, Layout.cyclic)   *)
(* and the top-level Compile with the systemd and the rhel writer.         *)
(*                                                                         *)
(* Seven specifications share the variables:                               *)
(*   SpecValidate  Layout.Validate run on a bounded family of layouts      *)
(*   SpecCyclic    Layout.Validate with the recursion of Layout.cyclic     *)
(*                 taken one call at a time                                *)
(*   Spec          Netplan.Compile run on a bounded family of netplans     *)
(*   SpecWrite     top-level Compile: Read, render, replace destination    *)
(*   SpecMatch     util.MatchPhys run on a bounded family of matches       *)
(*   SpecRender    Layout.Validate, then Systemd.Write's rendering loop    *)
(*   SpecFormats   Layout.Read, Layout.Write and Netplan.Write called on a *)
(*                 layout or a netplan, outside the top-level Compile      *)
(***************************************************************************)
EXTENDS Integers, Sequences, FiniteSets, TLC

VARIABLES
    Interfaces,    \* Layout.Interfaces: name -> Interface
    Child2Parent,  \* Layout.Child2Parent: name -> list of parent names
    Roots,         \* Layout.Roots
    verr,          \* msgs of the Err{Prefix: "layout"} of the running Validate
    pc,            \* position of the running operation
    todo,          \* names Validate still has to visit in its current loop
    clean,         \* cleanInterfaces of Layout.Validate
    calls,         \* number of Validate calls started on this layout
    prev,          \* Roots, Child2Parent and verdict left by the previous call
    np,            \* the Netplan being compiled
    errs,          \* msgs of the Err{Prefix: "netplan"} of Netplan.Compile
    matchChildren, \* matchChildren of Netplan.Compile
    dropped,       \* the declarations whose parser returned not valid
    final,         \* files of the final destination: <<name, ext>> -> content;
                   \* the one entry DestFile when it is a regular file
    tmp,           \* files of the temporary directory of Write
    written,       \* Systemd.written
    stack,         \* pending writeOut calls, then the files Copy has to visit;
                   \* in SpecCyclic the pending calls of Layout.cyclic
    werr,          \* msgs of the Err{Prefix: "systemd-networkd"} of Systemd.Write
    before,        \* the final destination as it was when Compile was called
    result,        \* what the top-level Compile, or the Reader or Writer called
                   \* on its own, returned: "none", "ok", "error"
    faults,        \* number of file operations that have failed
    match,         \* the Match handed to MatchPhys
    cands,         \* the candidates (phys) handed to MatchPhys
    found          \* the interfaces MatchPhys returned

vvars == <<Interfaces, Child2Parent, Roots, verr, pc, todo, clean, calls, prev>>
cvars == <<np, errs, matchChildren, dropped>>
wvars == <<final, tmp, written, stack, werr, before, result, faults>>
mvars == <<match, cands, found>>
vars == <<vvars, cvars, wvars, mvars>>

-----------------------------------------------------------------------------
(* Bounds *)

MaxEdges == 3      \* membership edges of a layout handed to Validate
MaxCalls == 2      \* Validate calls on one layout
MaxDecls == 3      \* declarations of a netplan handed to Compile
MaxFaults == 1     \* file operations that fail in one run of the top-level Compile
MaxCands == 2      \* candidates handed to MatchPhys

-----------------------------------------------------------------------------
(* Names and their order.  sort.Strings orders byte-wise; NameOrder lists  *)
(* the names of the model in that order.                                   *)

NameOrder == <<"", "a1", "b1", "e1", "e2", "r1", "up", "v1", "v2", "zz">>

Rank(n) == CHOOSE i \in 1..Len(NameOrder) : NameOrder[i] = n

Range(s) == {s[i] : i \in 1..Len(s)}

RECURSIVE Insert(_, _)
Insert(s, x) ==
    IF s = <<>> THEN <<x>>
    ELSE IF Rank(x) < Rank(Head(s)) THEN <<x>> \o s
    ELSE <<Head(s)>> \o Insert(Tail(s), x)

RECURSIVE SortStrings(_)
SortStrings(s) ==
    IF s = <<>> THEN <<>> ELSE Insert(SortStrings(Tail(s)), Head(s))

IsSorted(s) == \A i \in 1..(Len(s) - 1) : Rank(s[i]) <= Rank(s[i + 1])

RECURSIVE SetToSortedSeq(_)
SetToSortedSeq(S) ==
    IF S = {} THEN <<>>
    ELSE LET m == CHOOSE x \in S : \A y \in S : Rank(x) <= Rank(y)
         IN <<m>> \o SetToSortedSeq(S \ {m})

-----------------------------------------------------------------------------
(* Values of the untyped input (map[string]interface{}) and the checkers   *)
(* of util/validate.go.  A value is [t |-> type tag, v |-> payload].       *)

VBool(b) == [t |-> "bool", v |-> b]
VStr(x)  == [t |-> "str", v |-> x]
VInt(n)  == [t |-> "int", v |-> n]       \* a number without fraction, below 2^31 in size
VInt64(w) == [t |-> "int64", v |-> w]    \* a number of up to 64 bits, w = <<a, b, c>> as below
VFloat(n) == [t |-> "float", v |-> n]    \* a number with a fraction that int() truncates to n
VSeq(l)  == [t |-> "list", v |-> l]      \* a list of values
VList(l) == VSeq([i \in 1..Len(l) |-> VStr(l[i])])     \* a list of strings
VMap(m)  == [t |-> "map", v |-> m]       \* m: key -> value
VAddr(f) == [t |-> "ip", v |-> f]        \* a string holding a bare address of family f (4 or 6)
VCidr(f) == [t |-> "cidr", v |-> f]      \* a string holding an address of family f with a prefix length
VHw(a)   == [t |-> "mac", v |-> a]       \* a string holding the hardware address a
VNull    == [t |-> "null", v |-> 0]

EmptyMap == << >>

\* The values JSON writes as a string, and their text
IsString(v) == v.t \in {"str", "ip", "cidr", "mac"}

Text(v) ==
    CASE v.t \in {"str", "mac"} -> v.v
      [] v.t = "ip" -> IF v.v = 4 THEN "10.0.0.1" ELSE "fe80::1"
      [] v.t = "cidr" -> IF v.v = 4 THEN "10.0.0.1/8" ELSE "fe80::1/64"
      [] OTHER -> ""

\* A Go int has 64 bits, the integers of the checker have 32: an integer is
\* held as <<a, b, c>>, standing for a * 2^32 + b * 2^16 + c with
\* 0 <= b < 2^16 and 0 <= c < 2^16.
Limb == 256 * 256

Wide(n) == <<IF n < 0 THEN -1 ELSE 0, (n \div Limb) % Limb, n % Limb>>

Narrow(w) == IF w[1] < 0 THEN (w[2] - Limb) * Limb + w[3] ELSE w[2] * Limb + w[3]

WideLE(x, y) ==
    \/ x[1] < y[1]
    \/ x[1] = y[1] /\ x[2] < y[2]
    \/ x[1] = y[1] /\ x[2] = y[2] /\ x[3] <= y[3]

WideNeg(w) ==
    IF w[3] # 0 THEN <<-w[1] - 1, Limb - 1 - w[2], Limb - w[3]>>
    ELSE IF w[2] # 0 THEN <<-w[1] - 1, Limb - w[2], 0>>
    ELSE <<-w[1], 0, 0>>

\* A checker returns the new value, whether it is valid, and the messages
\* it added to e; or it panics.
Checked(nv, ok, msgs) == [nv |-> nv, ok |-> ok, msgs |-> msgs, panic |-> FALSE]

Panic(msgs) == [nv |-> 0, ok |-> FALSE, msgs |-> msgs, panic |-> TRUE]

ValidateUnsupp(k, v) == Checked(v, FALSE, << <<"Key", k, "is not supported">> >>)

ValidateBool(k, v) ==
    IF v.t = "bool" THEN Checked(v.v, TRUE, <<>>)
    ELSE IF v.t = "str" /\ v.v \in {"0", "f", "false", "off"} THEN Checked(FALSE, TRUE, <<>>)
    ELSE IF v.t = "str" /\ v.v \in {"1", "t", "true", "on"} THEN Checked(TRUE, TRUE, <<>>)
    ELSE Checked(FALSE, FALSE, << <<k, "Cannot cast to a boolean">> >>)

\* The characters of the strings of the model; a string that is not listed
\* counts as one character that is no digit, letter or sign.
Chars(x) ==
    CASE x = "" -> <<>>
      [] x = "a1" -> <<"a", "1">>
      [] x = "b1" -> <<"b", "1">>
      [] x = "e1" -> <<"e", "1">>
      [] x = "e2" -> <<"e", "2">>
      [] x = "r1" -> <<"r", "1">>
      [] x = "up" -> <<"u", "p">>
      [] x = "v1" -> <<"v", "1">>
      [] x = "v2" -> <<"v", "2">>
      [] x = "zz" -> <<"z", "z">>
      [] x = "e*" -> <<"e", "*">>
      [] x = "e?" -> <<"e", "?">>
      [] x = "s1" -> <<"s", "1">>
      [] x = "s2" -> <<"s", "2">>
      [] x = "n1" -> <<"n", "1">>
      [] x = "n2" -> <<"n", "2">>
      [] x = "d1" -> <<"d", "1">>
      [] x = "d2" -> <<"d", "2">>
      [] x = "d*" -> <<"d", "*">>
      [] x = "bootif" -> <<"b", "o", "o", "t", "i", "f">>
      [] x = "^e" -> <<"^", "e">>
      [] x = "0" -> <<"0">>
      [] x = "1" -> <<"1">>
      [] x = "2" -> <<"2">>
      [] x = "3" -> <<"3">>
      [] x = "7" -> <<"7">>
      [] x = "9" -> <<"9">>
      [] x = "10" -> <<"1", "0">>
      [] x = "-1" -> <<"-", "1">>
      [] x = "+1" -> <<"+", "1">>
      [] x = "-" -> <<"-">>
      [] x = "-0" -> <<"-", "0">>
      [] x = "0x1" -> <<"0", "x", "1">>
      [] x = "0X1F" -> <<"0", "X", "1", "F">>
      [] x = "0x" -> <<"0", "x">>
      [] x = "010" -> <<"0", "1", "0">>
      [] x = "08" -> <<"0", "8">>
      [] x = "0b11" -> <<"0", "b", "1", "1">>
      [] x = "0o17" -> <<"0", "o", "1", "7">>
      [] x = "1_0" -> <<"1", "_", "0">>
      [] x = "0x_1" -> <<"0", "x", "_", "1">>
      [] x = "_1" -> <<"_", "1">>
      [] x = "1_" -> <<"1", "_">>
      [] x = "1__0" -> <<"1", "_", "_", "0">>
      [] x = "1f" -> <<"1", "f">>
      [] x = "1.5" -> <<"1", ".", "5">>
      [] x = " 1" -> <<" ", "1">>
      [] x = "100" -> <<"1", "0", "0">>
      [] x = "255" -> <<"2", "5", "5">>
      [] x = "256" -> <<"2", "5", "6">>
      [] x = "4094" -> <<"4", "0", "9", "4">>
      [] x = "4095" -> <<"4", "0", "9", "5">>
      [] x = "65536" -> <<"6", "5", "5", "3", "6">>
      [] x = "3000000000" -> <<"3", "0", "0", "0", "0", "0", "0", "0", "0", "0">>
      [] x = "4294967295" -> <<"4", "2", "9", "4", "9", "6", "7", "2", "9", "5">>
      [] x = "4294967296" -> <<"4", "2", "9", "4", "9", "6", "7", "2", "9", "6">>
      [] x = "9223372036854775807" ->
           <<"9", "2", "2", "3", "3", "7", "2", "0", "3", "6", "8", "5", "4", "7", "7", "5", "8", "0", "7">>
      [] x = "9223372036854775808" ->
           <<"9", "2", "2", "3", "3", "7", "2", "0", "3", "6", "8", "5", "4", "7", "7", "5", "8", "0", "8">>
      [] x = "-9223372036854775808" ->
           <<"-", "9", "2", "2", "3", "3", "7", "2", "0", "3", "6", "8", "5", "4", "7", "7", "5", "8", "0", "8">>
      [] x = "-9223372036854775809" ->
           <<"-", "9", "2", "2", "3", "3", "7", "2", "0", "3", "6", "8", "5", "4", "7", "7", "5", "8", "0", "9">>
      [] x = "18446744073709551615" ->
           <<"1", "8", "4", "4", "6", "7", "4", "4", "0", "7", "3", "7", "0", "9", "5", "5", "1", "6", "1", "5">>
      [] x = "18446744073709551616" ->
           <<"1", "8", "4", "4", "6", "7", "4", "4", "0", "7", "3", "7", "0", "9", "5", "5", "1", "6", "1", "6">>
      [] x = "-0x8000000000000000" ->
           <<"-", "0", "x", "8", "0", "0", "0", "0", "0", "0", "0", "0", "0", "0", "0", "0", "0", "0", "0">>
      [] OTHER -> <<x>>

\* strconv.ParseInt(s, 0, 64): a sign, then a base prefix (0x, 0o, 0b, or a
\* leading 0 for octal), then digits of that base, which underscores may
\* separate.
Lower(c) ==
    CASE c = "A" -> "a" [] c = "B" -> "b" [] c = "C" -> "c" [] c = "D" -> "d"
      [] c = "E" -> "e" [] c = "F" -> "f" [] c = "O" -> "o" [] c = "X" -> "x"
      [] OTHER -> c

DigitOf(c) ==
    CASE c = "0" -> 0 [] c = "1" -> 1 [] c = "2" -> 2 [] c = "3" -> 3 [] c = "4" -> 4
      [] c = "5" -> 5 [] c = "6" -> 6 [] c = "7" -> 7 [] c = "8" -> 8 [] c = "9" -> 9
      [] c \in {"a", "A"} -> 10 [] c \in {"b", "B"} -> 11 [] c \in {"c", "C"} -> 12
      [] c \in {"d", "D"} -> 13 [] c \in {"e", "E"} -> 14 [] c \in {"f", "F"} -> 15
      [] OTHER -> 36

HasPrefix(u) == Len(u) >= 2 /\ u[1] = "0" /\ Lower(u[2]) \in {"b", "o", "x"}

\* The uint64 of ParseUint is held as four limbs <<h, a, b, c>>, standing for
\* h * 2^48 + a * 2^32 + b * 2^16 + c.
Uint64Zero == <<0, 0, 0, 0>>

\* the digit loop of ParseUint, n = n * base + d: a character that is no
\* digit of the base is a syntax error, a number beyond 2^64 - 1 a range
\* error
RECURSIVE ParseDigits(_, _, _)
ParseDigits(s, base, n) ==
    IF s = <<>> THEN [ok |-> TRUE, n |-> n]
    ELSE IF Head(s) = "_" THEN ParseDigits(Tail(s), base, n)
    ELSE IF DigitOf(Head(s)) >= base THEN [ok |-> FALSE, n |-> Uint64Zero]
    ELSE LET c == n[4] * base + DigitOf(Head(s))
             b == n[3] * base + c \div Limb
             a == n[2] * base + b \div Limb
         IN IF n[1] * base + a \div Limb >= Limb
            THEN [ok |-> FALSE, n |-> Uint64Zero]
            ELSE ParseDigits(Tail(s), base,
                             <<n[1] * base + a \div Limb, a % Limb, b % Limb, c % Limb>>)

\* underscoreOK: an underscore stands between two digits, or between the
\* base prefix and a digit
RECURSIVE UnderscoreOK(_, _, _)
UnderscoreOK(s, i, hex) ==
    IF s = <<>> THEN i # "_"
    ELSE IF DigitOf(Head(s)) <= 9 \/ (hex /\ DigitOf(Head(s)) <= 15)
    THEN UnderscoreOK(Tail(s), "0", hex)
    ELSE IF Head(s) = "_" THEN i = "0" /\ UnderscoreOK(Tail(s), "_", hex)
    ELSE i # "_" /\ UnderscoreOK(Tail(s), "!", hex)

ParseUint(u) ==
    IF u = <<>> THEN [ok |-> FALSE, n |-> Uint64Zero]
    ELSE IF "_" \in Range(u)
            /\ ~(IF HasPrefix(u)
                 THEN UnderscoreOK(SubSeq(u, 3, Len(u)), "0", Lower(u[2]) = "x")
                 ELSE UnderscoreOK(u, "^", FALSE))
    THEN [ok |-> FALSE, n |-> Uint64Zero]
    ELSE IF u[1] # "0" THEN ParseDigits(u, 10, Uint64Zero)
    ELSE IF Len(u) >= 3 /\ HasPrefix(u)
    THEN ParseDigits(SubSeq(u, 3, Len(u)),
                     CASE Lower(u[2]) = "b" -> 2 [] Lower(u[2]) = "o" -> 8 [] OTHER -> 16,
                     Uint64Zero)
    ELSE ParseDigits(Tail(u), 8, Uint64Zero)

\* ParseInt: the sign is taken off, the rest is read by ParseUint.  un is
\* out of range when it is 2^63 or more without a sign and when it is more
\* than 2^63 after a minus; -2^63 is in range.
MinInt64 == <<-2147483647 - 1, 0, 0>>

Signed(neg, r) ==
    IF ~r.ok THEN [ok |-> FALSE, n |-> Wide(0)]
    ELSE IF r.n[1] < Limb \div 2
    THEN [ok |-> TRUE,
          n |-> IF neg THEN WideNeg(<<r.n[1] * Limb + r.n[2], r.n[3], r.n[4]>>)
                ELSE <<r.n[1] * Limb + r.n[2], r.n[3], r.n[4]>>]
    ELSE IF neg /\ r.n = <<Limb \div 2, 0, 0, 0>> THEN [ok |-> TRUE, n |-> MinInt64]
    ELSE [ok |-> FALSE, n |-> Wide(0)]

ParseSigned(c) ==
    Signed(c # <<>> /\ Head(c) = "-",
           ParseUint(IF c # <<>> /\ Head(c) \in {"-", "+"} THEN Tail(c) ELSE c))

ParseInt(x) == ParseSigned(Chars(x))

\* res = int(vv) for the numbers, ParseInt for a string
ToInt(v) ==
    CASE v.t \in {"int", "float"} -> [ok |-> TRUE, n |-> Wide(v.v)]
      [] v.t = "int64" -> [ok |-> TRUE, n |-> v.v]
      [] IsString(v) -> ParseInt(Text(v))
      [] OTHER -> [ok |-> FALSE, n |-> Wide(0)]

\* valid = (min <= res && res <= max)
InRange(k, r, min, max) ==
    IF ~r.ok THEN Checked(Wide(0), FALSE, << <<k, "Cannot cast to an int">> >>)
    ELSE IF WideLE(min, r.n) /\ WideLE(r.n, max) THEN Checked(r.n, TRUE, <<>>)
    ELSE Checked(r.n, FALSE, << <<k, "out of range">> >>)

ValidateInt(k, v, min, max) == InRange(k, ToInt(v), min, max)

ValidateStrIn(k, v, vals) ==
    IF ~IsString(v) THEN Checked("", FALSE, << <<k, "is not a string">> >>)
    ELSE IF vals = {} THEN Checked(Text(v), TRUE, <<>>)
    ELSE IF Text(v) \in vals THEN Checked(Text(v), TRUE, <<>>)
    ELSE Checked(Text(v), FALSE, << <<k, "Not in valid set">> >>)

\* Remarshal(v, &res): a hardware address is read from its text, null
\* leaves the nil address (""), anything else is an error
ValidateMac(k, v) ==
    IF v.t = "mac" THEN Checked(v.v, TRUE, <<>>)
    ELSE IF v.t = "null" THEN Checked("", TRUE, <<>>)
    ELSE Checked("", FALSE, << <<k, "Cannot cast to a HardwareAddr">> >>)

\* A *IP: nil, or an IP whose address is of family 4 or 6 or is nil (0)
NilIP == [nil |-> TRUE, IP |-> 0, Mask |-> FALSE]

\* IP.UnmarshalText: ParseCIDR, else ParseIP; never an error
UnmarshalText(v) ==
    [nil |-> FALSE, IP |-> IF v.t \in {"ip", "cidr"} THEN v.v ELSE 0, Mask |-> v.t = "cidr"]

\* Remarshal(v, &res): any string is read by UnmarshalText, null leaves the
\* nil pointer, anything else is an error that leaves a new IP without
\* address
ValidateIP(k, v) ==
    IF IsString(v) THEN Checked(UnmarshalText(v), TRUE, <<>>)
    ELSE IF v.t = "null" THEN Checked(NilIP, TRUE, <<>>)
    ELSE Checked(UnmarshalText(v), FALSE, << <<k, "Cannot cast to an IP">> >>)

\* valid = valid && res.IP.To4() != nil: no message when the family is
\* wrong, a nil pointer dereference when res is nil
To4(r, four) ==
    IF r.ok /\ r.nv.nil THEN Panic(<<>>)
    ELSE Checked(r.nv, r.ok /\ (r.nv.IP = 4) = four, r.msgs)

VIP4(k, v) == To4(ValidateIP(k, v), TRUE)

VIP6(k, v) == To4(ValidateIP(k, v), FALSE)

\* Remarshal(v, &res) into a []string: a list of strings and nulls, or null
StringSlice(v) ==
    IF v.t = "null" THEN [ok |-> TRUE, res |-> <<>>]
    ELSE IF v.t = "list" /\ \A i \in 1..Len(v.v) : IsString(v.v[i]) \/ v.v[i].t = "null"
    THEN [ok |-> TRUE, res |-> [i \in 1..Len(v.v) |-> Text(v.v[i])]]
    ELSE [ok |-> FALSE, res |-> <<>>]

\* for _, sv := range res: every string is checked
StrIn(acc, r) == [acc EXCEPT !.ok = @ /\ r.ok, !.msgs = @ \o r.msgs]

RECURSIVE VSSLoop(_, _, _, _)
VSSLoop(k, res, vals, acc) ==
    IF res = <<>> THEN acc
    ELSE VSSLoop(k, Tail(res), vals, StrIn(acc, ValidateStrIn(k, VStr(Head(res)), vals)))

VSSOf(k, s, vals) ==
    IF ~s.ok THEN Checked(<<>>, FALSE, << <<k, "Failed to translate into a string slice">> >>)
    ELSE VSSLoop(k, s.res, vals, Checked(s.res, TRUE, <<>>))

VSS(k, v, vals) == VSSOf(k, StringSlice(v), vals)

\* Remarshal(v, &res) into a []*IP: a list of strings and nulls, or null
IPSlice(v) ==
    IF v.t = "null" THEN [ok |-> TRUE, res |-> <<>>]
    ELSE IF v.t = "list"
    THEN [ok |-> \A i \in 1..Len(v.v) : IsString(v.v[i]) \/ v.v[i].t = "null",
          res |-> [i \in 1..Len(v.v) |->
                     IF v.v[i].t = "null" THEN NilIP ELSE UnmarshalText(v.v[i])]]
    ELSE [ok |-> FALSE, res |-> <<>>]

\* for _, addr := range res: one message for every address that is not in
\* the expected format; addr.IsCIDR() of a nil pointer panics
RECURSIVE IPListLoop(_, _, _, _)
IPListLoop(k, res, cidr, acc) ==
    IF res = <<>> THEN acc
    ELSE IF Head(res).nil THEN Panic(acc.msgs)
    ELSE IF Head(res).Mask = cidr THEN IPListLoop(k, Tail(res), cidr, acc)
    ELSE IPListLoop(k, Tail(res), cidr,
                    [acc EXCEPT !.ok = FALSE,
                                !.msgs = Append(@, <<k, "is not in the expected format">>)])

IPListOf(k, s, cidr) ==
    IF ~s.ok THEN Checked(s.res, FALSE, << <<k, "Cannot cast to a list of IPs">> >>)
    ELSE IPListLoop(k, s.res, cidr, Checked(s.res, TRUE, <<>>))

ValidateIPList(k, v, cidr) == IPListOf(k, IPSlice(v), cidr)

\* Check: a validator and a default.  C(checker) and D(default, checker).
C(c, arg) == [c |-> c, arg |-> arg, hasD |-> FALSE, d |-> 0]
D(dfl, c, arg) == [c |-> c, arg |-> arg, hasD |-> TRUE, d |-> dfl]

\* VI(min, max)
VI(min, max) == C("VI", <<Wide(min), Wide(max)>>)

MaxUint32 == <<0, Limb - 1, Limb - 1>>
MaxUint8 == 255
MaxInt8 == 127
MaxInt16 == 32767
MaxUint16 == 65535
MaxInt32 == 2147483647
DefaultBridgePriority == 32768
MaxVlanID == 4094

NameserverChecks ==
    [search |-> C("VSS", {}), addresses |-> C("VIPS", FALSE)]

OverrideChecks ==
    ("use-dns" :> D(TRUE, "VB", {})) @@ ("use-ntp" :> D(TRUE, "VB", {})) @@
    ("send-hostname" :> D(TRUE, "VB", {})) @@ ("use-mtu" :> D(TRUE, "VB", {})) @@
    ("hostname" :> C("VS", {})) @@ ("use-routes" :> D(TRUE, "VB", {})) @@
    ("route-metric" :> C("VI", <<Wide(0), MaxUint32>>)) @@
    ("use-domains" :> D(TRUE, "VS", {"true", "false", "route"}))

NetworkChecks ==
    ("dhcp4" :> D(FALSE, "VB", {})) @@ ("dhcp4-overrides" :> C("override", {})) @@
    ("dhcp6" :> D(FALSE, "VB", {})) @@ ("dhcp6-overrides" :> C("override", {})) @@
    ("dhcp-identifier" :> C("VS", {})) @@ ("accept-ra" :> D(TRUE, "VB", {})) @@
    ("addresses" :> C("VIPS", TRUE)) @@
    ("gateway4" :> C("VIP4", {})) @@ ("gateway6" :> C("VIP6", {})) @@
    ("nameservers" :> C("nameservers", {})) @@
    ("routes" :> C("routes", {})) @@ ("routing-policy" :> C("routepolicy", {}))

RouteChecks ==
    ("from" :> C("VIP", {})) @@ ("to" :> C("VIP", {})) @@ ("via" :> C("VIP", {})) @@
    ("on-link" :> C("VB", {})) @@ ("metric" :> C("VI", <<Wide(0), MaxUint32>>)) @@
    ("table" :> C("VI", <<Wide(0), MaxUint32>>)) @@
    ("scope" :> C("VS", {"global", "link", "host"})) @@
    ("type" :> D("unicast", "VS", {"unicast", "unreachable", "blackhole", "prohibit"}))

RoutePolicyChecks ==
    ("from" :> C("VIP", {})) @@ ("to" :> C("VIP", {})) @@
    ("table" :> C("VI", <<Wide(0), MaxUint32>>)) @@
    ("priority" :> C("VI", <<Wide(0), MaxUint32>>)) @@
    ("mark" :> VI(0, MaxUint8)) @@ ("tos" :> VI(0, MaxUint8))

PhyMatchChecks ==
    [name |-> C("VS", {}), macaddress |-> C("VMAC", {}), driver |-> C("VS", {})]

EthernetChecks ==
    ("match" :> C("phymatch", {})) @@ ("wakeonlan" :> C("VB", {})) @@
    ("set-name" :> C("unsupp", {})) @@ ("macaddress" :> C("unsupp", {})) @@
    ("optional" :> C("VB", {}))

BridgeParamChecks ==
    ("stp" :> D(TRUE, "VB", {})) @@ ("max-age" :> VI(0, MaxInt8)) @@
    ("hello-time" :> VI(0, MaxInt8)) @@ ("forward-delay" :> VI(0, MaxInt8)) @@
    ("ageing-time" :> VI(0, MaxInt8)) @@
    ("priority" :> D(Wide(DefaultBridgePriority), "VI", <<Wide(0), Wide(MaxInt16)>>))

BondParamChecks ==
    ("ad-select" :> C("VS", {"stable", "bandwidth", "count"})) @@
    ("all-slaves-active" :> C("VB", {})) @@
    ("arp-all-targets" :> C("VS", {"any", "all"})) @@
    ("arp-interval" :> VI(0, MaxInt8)) @@
    ("arp-ip-targets" :> C("VIPS", FALSE)) @@
    ("arp-validate" :> C("VS", {"none", "active", "backup", "all"})) @@
    ("down-delay" :> VI(0, MaxInt8)) @@
    ("fail-over-mac-policy" :> C("VS", {"none", "active", "follow"})) @@
    ("gratuitous-arp" :> VI(1, MaxInt8)) @@
    ("lacp-rate" :> C("VS", {"fast", "slow"})) @@
    ("learn-packet-interval" :> VI(1, MaxInt32)) @@
    ("mii-monitor-interval" :> VI(0, MaxInt8)) @@
    ("min-links" :> VI(1, MaxInt8)) @@
    ("mode" :> C("VS", {"balance-rr", "active-backup", "balance-xor", "broadcast",
                        "802.3ad", "balance-tlb", "balance-alb"})) @@
    ("packets-per-slave" :> VI(0, MaxUint16)) @@
    ("primary" :> C("VS", {})) @@
    ("primary-reselect-policy" :> C("VS", {"always", "better", "failure"})) @@
    ("resend-igmp" :> VI(0, MaxUint8)) @@
    ("transmit-hash-policy" :> C("VS", {"layer2", "layer3+4", "layer2+3", "encap2+3", "encap3+4"})) @@
    ("up-delay" :> VI(0, MaxInt8))

BBChecks(kind) ==
    ("macaddress" :> C("VMAC", {})) @@ ("interfaces" :> C("VSS", {})) @@
    ("parameters" :> C(IF kind = "bond" THEN "bondparams" ELSE "bridgeparams", {})) @@
    ("optional" :> C("VB", {}))

VlanChecksI == [macaddress |-> C("VMAC", {})]

VlanChecksLI == [link |-> C("VS", {}), id |-> VI(0, MaxVlanID)]

-----------------------------------------------------------------------------
(* ValidateAndMarshal.  Every loop over a map of checks visits its keys in *)
(* an order of its own.  The orders of one run are held in ord, a sequence *)
(* of the paths of every key of the input: <<k>> for a key of the map,     *)
(* <<k, k2>> for a key of the map under k, <<k, i, k2>> for a key of the   *)
(* i-th map of the list under k.  A loop visits the keys of its map in the *)
(* order their paths have in ord.                                          *)

Pos(ord, k) == CHOOSE i \in 1..Len(ord) : ord[i] = <<k>>

RECURSIVE OrdKeys(_, _)
OrdKeys(S, ord) ==
    IF S = {} THEN <<>>
    ELSE LET m == CHOOSE x \in S : \A y \in S : Pos(ord, x) <= Pos(ord, y)
         IN <<m>> \o OrdKeys(S \ {m}, ord)

RECURSIVE Perms(_)
Perms(S) ==
    IF S = {} THEN {<<>>}
    ELSE UNION {{<<x>> \o p : p \in Perms(S \ {x})} : x \in S}

RECURSIVE AllKeys(_)
AllKeys(val) ==
    IF val.t = "map"
    THEN UNION {{<<k>>} \cup {<<k>> \o p : p \in AllKeys(val.v[k])} : k \in DOMAIN val.v}
    ELSE IF val.t = "list"
    THEN UNION {{<<i>> \o p : p \in AllKeys(val.v[i])} : i \in 1..Len(val.v)}
    ELSE {}

\* The orders of the loops that run on the value under k
Under(ord, k) ==
    LET sel == SelectSeq(ord, LAMBDA p : Len(p) > 1 /\ p[1] = k)
    IN [j \in 1..Len(sel) |-> Tail(sel[j])]

RECURSIVE ValidateAndMarshal(_, _, _)
RECURSIVE VAMLoop(_, _, _, _, _)
RECURSIVE RunCheck(_, _, _, _)
RECURSIVE MapList(_, _, _, _, _, _)

\* err := Remarshal(res, val): the nil hardware address is written as ""
\* and no hardware address is read from ""
Remarshal(acc) ==
    IF acc.panic \/ ~acc.ok THEN acc
    ELSE IF "macaddress" \in DOMAIN acc.res /\ acc.res["macaddress"] = ""
    THEN [acc EXCEPT !.ok = FALSE, !.msgs = Append(@, <<"Error converting">>)]
    ELSE acc

ValidateAndMarshal(vals, checks, ord) ==
    IF vals.t # "map"
    THEN [ok |-> FALSE, msgs |-> << <<"cannot validate format">> >>, res |-> EmptyMap,
          panic |-> FALSE]
    ELSE LET m == vals.v
             dflt == [k \in {x \in DOMAIN checks \ DOMAIN m : checks[x].hasD} |-> checks[k].d]
         IN Remarshal(VAMLoop(m, checks, OrdKeys(DOMAIN checks \cap DOMAIN m, ord), ord,
                              [ok |-> TRUE, msgs |-> <<>>, res |-> dflt, panic |-> FALSE]))

\* The end of one iteration: a valid value is stored under its key
Store(acc, k, r) ==
    [ok |-> acc.ok /\ r.ok,
     msgs |-> acc.msgs \o r.msgs,
     res |-> IF r.ok THEN (k :> r.nv) @@ acc.res ELSE acc.res,
     panic |-> r.panic]

\* for key, check := range checks: a field that is not valid is answered by
\* resOK = false and continue, a panic of a checker ends the loop
VAMLoop(m, checks, keys, ord, acc) ==
    IF keys = <<>> \/ acc.panic THEN acc
    ELSE VAMLoop(m, checks, Tail(keys), ord,
                 Store(acc, Head(keys),
                       RunCheck(checks[Head(keys)], Head(keys), m[Head(keys)], ord)))

\* routes() and routepolicy(): every element of the list is validated
StoreItem(acc, r, what, i) ==
    IF r.panic THEN Panic(acc.msgs \o r.msgs)
    ELSE IF r.ok THEN [acc EXCEPT !.msgs = @ \o r.msgs, !.nv = Append(@, r.res)]
    ELSE [acc EXCEPT !.msgs = @ \o r.msgs \o << <<what, i - 1>> >>, !.ok = FALSE]

MapList(v, checks, ord, i, acc, what) ==
    IF i > Len(v.v) \/ acc.panic THEN acc
    ELSE MapList(v, checks, ord, i + 1,
                 StoreItem(acc, ValidateAndMarshal(v.v[i], checks, Under(ord, i)), what, i),
                 what)

AsChecked(r) == [nv |-> r.res, ok |-> r.ok, msgs |-> r.msgs, panic |-> r.panic]

Nested(v, checks, ord) == AsChecked(ValidateAndMarshal(v, checks, ord))

\* The validators that check a map, or a list of maps, against a table
NestedChecks ==
    [phymatch |-> PhyMatchChecks, override |-> OverrideChecks,
     nameservers |-> NameserverChecks, bondparams |-> BondParamChecks,
     bridgeparams |-> BridgeParamChecks]

ListChecks ==
    [routes |-> [checks |-> RouteChecks, what |-> "Invalid route"],
     routepolicy |-> [checks |-> RoutePolicyChecks, what |-> "Invalid routing policy"]]

RunCheck(chk, k, v, ord) ==
    CASE chk.c = "VB" -> ValidateBool(k, v)
      [] chk.c = "VS" -> ValidateStrIn(k, v, chk.arg)
      [] chk.c = "VI" -> ValidateInt(k, v, chk.arg[1], chk.arg[2])
      [] chk.c = "VIP" -> ValidateIP(k, v)
      [] chk.c = "VIP4" -> VIP4(k, v)
      [] chk.c = "VIP6" -> VIP6(k, v)
      [] chk.c = "VMAC" -> ValidateMac(k, v)
      [] chk.c = "VSS" -> VSS(k, v, chk.arg)
      [] chk.c = "VIPS" -> ValidateIPList(k, v, chk.arg)
      [] chk.c = "unsupp" -> ValidateUnsupp(k, v)
      [] chk.c \in DOMAIN NestedChecks -> Nested(v, NestedChecks[chk.c], Under(ord, k))
      [] chk.c \in DOMAIN ListChecks ->
            IF v.t # "list" THEN Checked(<<>>, FALSE, << <<"routes in invalid format">> >>)
            ELSE MapList(v, ListChecks[chk.c].checks, Under(ord, k), 1,
                         Checked(<<>>, TRUE, <<>>), ListChecks[chk.c].what)

-----------------------------------------------------------------------------
(* util.Network and util.Interface                                         *)

NilNSInfo == [nil |-> TRUE, Search |-> <<>>, Addresses |-> <<>>]

NilNetwork ==
    [nil |-> TRUE, AcceptRa |-> FALSE, Dhcp4 |-> FALSE, Dhcp6 |-> FALSE,
     DhcpIdentifier |-> "", Addresses |-> <<>>, Gateway4 |-> NilIP, Gateway6 |-> NilIP,
     Nameservers |-> NilNSInfo, Routes |-> <<>>, RoutingPolicy |-> <<>>]

Get(res, k, dflt) == IF k \in DOMAIN res THEN res[k] ELSE dflt

\* Remarshal of the checked values into a *util.NSInfo
NSInfoOf(res) ==
    [nil |-> FALSE, Search |-> Get(res, "search", <<>>), Addresses |-> Get(res, "addresses", <<>>)]

\* Remarshal of the checked values into a util.Route
RouteOf(res) ==
    [From |-> Get(res, "from", NilIP), To |-> Get(res, "to", NilIP),
     Via |-> Get(res, "via", NilIP), OnLink |-> Get(res, "on-link", FALSE),
     Metric |-> Get(res, "metric", Wide(0)), Type |-> Get(res, "type", ""),
     Scope |-> Get(res, "scope", ""), Table |-> Get(res, "table", Wide(0))]

\* Remarshal of the checked values into a util.RoutePolicy; the value kept
\* under "tos" is no field of it (TOS is read from "type-of-service")
RoutePolicyOf(res) ==
    [From |-> Get(res, "from", NilIP), To |-> Get(res, "to", NilIP),
     Table |-> Get(res, "table", Wide(0)), Priority |-> Get(res, "priority", Wide(0)),
     FWMark |-> Get(res, "mark", Wide(0)), TOS |-> Wide(0)]

\* Remarshal of the checked values into a *util.Network
NetworkOf(res) ==
    [nil |-> FALSE,
     AcceptRa |-> Get(res, "accept-ra", FALSE),
     Dhcp4 |-> Get(res, "dhcp4", FALSE),
     Dhcp6 |-> Get(res, "dhcp6", FALSE),
     DhcpIdentifier |-> Get(res, "dhcp-identifier", ""),
     Addresses |-> Get(res, "addresses", <<>>),
     Gateway4 |-> Get(res, "gateway4", NilIP),
     Gateway6 |-> Get(res, "gateway6", NilIP),
     Nameservers |-> IF "nameservers" \in DOMAIN res THEN NSInfoOf(res["nameservers"])
                     ELSE NilNSInfo,
     Routes |-> [i \in 1..Len(Get(res, "routes", <<>>)) |-> RouteOf(res["routes"][i])],
     RoutingPolicy |-> [i \in 1..Len(Get(res, "routing-policy", <<>>)) |->
                          RoutePolicyOf(res["routing-policy"][i])]]

\* Network.Configure
Configure(n) == ~n.nil /\ (n.AcceptRa \/ n.Dhcp4 \/ n.Dhcp6 \/ Len(n.Addresses) # 0)

\* Err.Merge: every message of o is appended with o's prefix in front.
Merge(msgs, prefix, other) ==
    msgs \o [k \in 1..Len(other) |-> prefix \o other[k]]

\* Route.validate, with Prefix "Route"
RouteValidate(r) ==
    (IF ~r.Via.nil /\ r.Via.Mask THEN << <<"Via must be a single IP address">> >> ELSE <<>>)
    \o (IF r.Type = "unicast"
        THEN IF r.To.nil \/ r.Via.nil
             THEN << <<"unicast routes require 'to' and 'via'">> >> ELSE <<>>
        ELSE IF r.To.nil THEN << <<r.Type, "routes require 'to'">> >> ELSE <<>>)

\* RoutePolicy.validate, with Prefix "RoutePolicy"
RoutePolicyValidate(rp) ==
    IF (~rp.From.nil) = (~rp.To.nil)
    THEN << <<"Route policy must include either a From or a To">> >> ELSE <<>>

RECURSIVE Concat(_)
Concat(ss) == IF ss = <<>> THEN <<>> ELSE Head(ss) \o Concat(Tail(ss))

\* Network.validate, with Prefix "network"; the lists of addresses of a
\* network hold no nil pointer
NetworkValidate(n) ==
    Merge(Merge(ValidateStrIn("dhcp-identifier", VStr(n.DhcpIdentifier), {"mac", ""}).msgs
                \o IPListLoop("addresses", n.Addresses, TRUE, Checked(<<>>, TRUE, <<>>)).msgs
                \o (IF ~n.Gateway4.nil /\ n.Gateway4.IP # 4
                    THEN << <<"Gateway4", "is not an IPv4 address">> >> ELSE <<>>)
                \o (IF ~n.Gateway6.nil /\ n.Gateway6.IP = 4
                    THEN << <<"Gateway6", "is not an IPv6 address">> >> ELSE <<>>)
                \o (IF n.Nameservers.nil THEN <<>>
                    ELSE Merge(<<>>, <<"nameservers">>,
                               IPListLoop("addresses", n.Nameservers.Addresses, FALSE,
                                          Checked(<<>>, TRUE, <<>>)).msgs)),
                <<"Route">>,
                Concat([i \in 1..Len(n.Routes) |-> RouteValidate(n.Routes[i])])),
          <<"RoutePolicy">>,
          Concat([i \in 1..Len(n.RoutingPolicy) |-> RoutePolicyValidate(n.RoutingPolicy[i])]))

\* util.NewInterface
NewInterface ==
    [Type |-> "", MatchID |-> "", Name |-> "", CurrentHwAddr |-> "", MacAddress |-> "",
     Optional |-> FALSE, Interfaces |-> <<>>, Parameters |-> EmptyMap, Network |-> NilNetwork]

-----------------------------------------------------------------------------
(* util.Glob2RE and util.MatchPhys                                         *)

\* ^pattern$ with * as .* and ? as . and every other character literal
RECURSIVE GlobMatch(_, _)
GlobMatch(p, x) ==
    IF p = <<>> THEN x = <<>>
    ELSE IF Head(p) = "*"
    THEN GlobMatch(Tail(p), x) \/ (x # <<>> /\ GlobMatch(p, Tail(x)))
    ELSE /\ x # <<>>
         /\ Head(p) = "?" \/ Head(p) = Head(x)
         /\ GlobMatch(Tail(p), Tail(x))

\* A pattern that starts with ^ is taken as a regular expression as it
\* stands: literals and . from the start of the string, $ for its end.
RECURSIVE RegexpMatch(_, _)
RegexpMatch(p, x) ==
    IF p = <<>> THEN TRUE
    ELSE IF p = <<"$">> THEN x = <<>>
    ELSE /\ x # <<>>
         /\ Head(p) = "." \/ Head(p) = Head(x)
         /\ RegexpMatch(Tail(p), Tail(x))

\* The patterns of the model all compile, so the error is always nil.
Glob2RE(pattern, x) ==
    IF Head(Chars(pattern)) = "^" THEN RegexpMatch(Tail(Chars(pattern)), Chars(x))
    ELSE GlobMatch(Chars(pattern), Chars(x))

\* The NICs found on the machine (the phys argument of Compile).
Phys ==
    << [Name |-> "e1", StableName |-> "s1", OrdinalName |-> "n1", Driver |-> "d1",
        HardwareAddr |-> "m1", BootIf |-> FALSE],
       [Name |-> "e2", StableName |-> "s2", OrdinalName |-> "n2", Driver |-> "d2",
        HardwareAddr |-> "m2", BootIf |-> TRUE] >>

NoMatch == [Name |-> "", MacAddress |-> "", Driver |-> ""]

\* Matches looking at the name of the candidate only.
MatchesNameOnly(m, phy) ==
    /\ m.Driver # "" => Glob2RE(m.Driver, phy.Driver)
    /\ m.MacAddress # "" => m.MacAddress = phy.HardwareAddr
    /\ IF m.Name = "bootif" THEN phy.BootIf
       ELSE m.Name # "" => Glob2RE(m.Name, phy.Name)

Matches(m, phy) ==
    /\ m.Driver # "" => Glob2RE(m.Driver, phy.Driver)
    /\ m.MacAddress # "" => m.MacAddress = phy.HardwareAddr
    /\ IF m.Name = "bootif" THEN phy.BootIf
       ELSE m.Name # "" => \/ Glob2RE(m.Name, phy.Name)
                           \/ Glob2RE(m.Name, phy.StableName)
                           \/ Glob2RE(m.Name, phy.OrdinalName)

RECURSIVE MatchPhys(_, _, _)
MatchPhys(m, tmpl, phys) ==
    IF phys = <<>> THEN <<>>
    ELSE LET phy == Head(phys)
             intf == [tmpl EXCEPT !.Name = phy.Name, !.Type = "physical",
                                  !.CurrentHwAddr = phy.HardwareAddr]
         IN (IF Matches(m, phy) THEN <<intf>> ELSE <<>>) \o MatchPhys(m, tmpl, Tail(phys))

-----------------------------------------------------------------------------
(* The declaration parsers of package netplan.  Each returns the parsed    *)
(* value, whether it is valid, and the messages added to e; or it panics.  *)

Parsed(res, ok, msgs) == [res |-> res, ok |-> ok, msgs |-> msgs, panic |-> FALSE]

Panicked(res, msgs) == [res |-> res, ok |-> FALSE, msgs |-> msgs, panic |-> TRUE]

MatchOf(res) ==
    [Name |-> Get(res, "name", ""), MacAddress |-> Get(res, "macaddress", ""),
     Driver |-> Get(res, "driver", "")]

EthernetOf(r, nw) ==
    IF r.panic THEN Panicked([Intf |-> NewInterface, Match |-> NoMatch], r.msgs)
    ELSE IF ~r.ok
    THEN Parsed([Intf |-> NewInterface, Match |-> NoMatch], FALSE,
                r.msgs \o << <<"not castable to an ethernet interface">> >>)
    ELSE IF nw.panic THEN Panicked([Intf |-> NewInterface, Match |-> NoMatch], r.msgs \o nw.msgs)
    ELSE IF ~nw.ok
    THEN Parsed([Intf |-> NewInterface, Match |-> NoMatch], FALSE, r.msgs \o nw.msgs)
    ELSE Parsed([Intf |-> [NewInterface EXCEPT
                             !.Type = "physical",
                             !.Parameters = IF Get(r.res, "wakeonlan", FALSE)
                                            THEN [wakeonlan |-> TRUE] ELSE EmptyMap,
                             !.Optional = Get(r.res, "optional", FALSE),
                             !.Network = NetworkOf(nw.res)],
                 Match |-> MatchOf(Get(r.res, "match", EmptyMap))],
                TRUE, r.msgs \o nw.msgs)

\* network() is not run when the fields of the ethernet are not valid
ethernet(v, ord) ==
    EthernetOf(ValidateAndMarshal(v, EthernetChecks, ord),
               ValidateAndMarshal(v, NetworkChecks, ord))

\* phy.matchPhys: an empty match matches by the id of the declaration
matchPhys(pi, phys) ==
    MatchPhys(IF pi.Match = NoMatch THEN [pi.Match EXCEPT !.Name = pi.Intf.MatchID]
              ELSE pi.Match,
              pi.Intf, phys)

BBOf(kind, r, nw) ==
    IF r.panic THEN Panicked(NewInterface, r.msgs)
    ELSE IF ~r.ok
    THEN Parsed(NewInterface, FALSE, r.msgs \o << <<"not castable to a", kind, "interface">> >>)
    ELSE IF nw.panic THEN Panicked(NewInterface, r.msgs \o nw.msgs)
    ELSE IF ~nw.ok THEN Parsed(NewInterface, FALSE, r.msgs \o nw.msgs)
    ELSE Parsed([NewInterface EXCEPT
                   !.Type = kind,
                   !.MacAddress = Get(r.res, "macaddress", ""),
                   !.Interfaces = Get(r.res, "interfaces", <<>>),
                   !.Parameters = Get(r.res, "parameters", EmptyMap),
                   !.Optional = Get(r.res, "optional", FALSE),
                   !.Network = NetworkOf(nw.res)],
                TRUE, r.msgs \o nw.msgs)

bb(kind, v, ord) ==
    BBOf(kind, ValidateAndMarshal(v, BBChecks(kind), ord),
         ValidateAndMarshal(v, NetworkChecks, ord))

\* The network of a vlan is kept only when it has something to configure
VlanNetwork(nw) == IF nw.ok /\ Configure(NetworkOf(nw.res)) THEN NetworkOf(nw.res) ELSE NilNetwork

VlanOf(rres, res, nw) ==
    IF rres.panic THEN Panicked(NewInterface, rres.msgs)
    ELSE IF res.panic THEN Panicked(NewInterface, rres.msgs \o res.msgs)
    ELSE IF nw.panic THEN Panicked(NewInterface, rres.msgs \o res.msgs \o nw.msgs)
    ELSE
    Parsed([NewInterface EXCEPT
              !.Type = "vlan",
              !.MacAddress = IF res.ok THEN Get(res.res, "macaddress", "") ELSE "",
              !.Interfaces = <<IF rres.ok THEN Get(rres.res, "link", "") ELSE "">>,
              !.Parameters = [id |-> IF rres.ok THEN Narrow(Get(rres.res, "id", Wide(0))) ELSE 0],
              !.Network = VlanNetwork(nw)],
           res.ok /\ nw.ok /\ rres.ok,
           rres.msgs \o res.msgs \o nw.msgs)

vlan(v, ord) ==
    VlanOf(ValidateAndMarshal(v, VlanChecksLI, ord),
           ValidateAndMarshal(v, VlanChecksI, ord),
           ValidateAndMarshal(v, NetworkChecks, ord))

-----------------------------------------------------------------------------
(* Interface.validate: the per-node rules and the ownership claims.        *)

\* ClaimLoop without the test of the owner's type in the vlan case.
RECURSIVE ClaimLoopAnyOwner(_, _, _, _, _, _)
ClaimLoopAnyOwner(ifs, i, child, others, c2p, msgs) ==
    IF others = <<>> THEN [c2p |-> c2p, msgs |-> msgs]
    ELSE LET otherName == Head(others)
             owned == <<child, "is already owned by", otherName, "it canot be a member of", i>>
         IN IF ifs[i].Type \in {"bridge", "bond"}
            THEN ClaimLoopAnyOwner(ifs, i, child, Tail(others), c2p, Append(msgs, owned))
            ELSE ClaimLoopAnyOwner(ifs, i, child, Tail(others),
                                   [c2p EXCEPT ![child] = SortStrings(Append(@, i))], msgs)

\* ClaimLoop recording the new parent even when it reports the owner.
RECURSIVE ClaimLoopAddsRefused(_, _, _, _, _, _)
ClaimLoopAddsRefused(ifs, i, child, others, c2p, msgs) ==
    IF others = <<>> THEN [c2p |-> c2p, msgs |-> msgs]
    ELSE LET otherName == Head(others)
             otherType == IF otherName \in DOMAIN ifs THEN ifs[otherName].Type ELSE ""
             owned == <<child, "is already owned by", otherName, "it canot be a member of", i>>
             added == [c2p EXCEPT ![child] = SortStrings(Append(@, i))]
         IN IF ifs[i].Type \in {"bridge", "bond"} \/ otherType # "vlan"
            THEN ClaimLoopAddsRefused(ifs, i, child, Tail(others), added, Append(msgs, owned))
            ELSE ClaimLoopAddsRefused(ifs, i, child, Tail(others), added, msgs)

\* The loop over otherNames (the parents recorded when the loop starts).
RECURSIVE ClaimLoop(_, _, _, _, _, _)
ClaimLoop(ifs, i, child, others, c2p, msgs) ==
    IF others = <<>> THEN [c2p |-> c2p, msgs |-> msgs]
    ELSE LET otherName == Head(others)
             otherType == IF otherName \in DOMAIN ifs THEN ifs[otherName].Type ELSE ""
             owned == <<child, "is already owned by", otherName, "it canot be a member of", i>>
         IN IF ifs[i].Type \in {"bridge", "bond"} \/ otherType # "vlan"
            THEN ClaimLoop(ifs, i, child, Tail(others), c2p, Append(msgs, owned))
            ELSE ClaimLoop(ifs, i, child, Tail(others),
                           [c2p EXCEPT ![child] = SortStrings(Append(@, i))], msgs)

\* MemberLoop passing over a member that is not a key of Interfaces
\* without a message.
RECURSIVE MemberLoopSkipUndefined(_, _, _, _, _)
MemberLoopSkipUndefined(ifs, i, names, c2p, msgs) ==
    IF names = <<>> THEN [c2p |-> c2p, msgs |-> msgs]
    ELSE LET name == Head(names)
             rest == Tail(names)
             t    == ifs[i].Type
         IN IF name \notin DOMAIN ifs
            THEN MemberLoopSkipUndefined(ifs, i, rest, c2p, msgs)
            ELSE IF t = "bond" /\ ifs[name].Type # "physical"
            THEN MemberLoopSkipUndefined(ifs, i, rest, c2p,
                            Append(msgs, <<i, "refers to", name, "which is not a physical interface">>))
            ELSE IF t \in {"bridge", "vlan"} /\ ifs[name].Type = t
            THEN MemberLoopSkipUndefined(ifs, i, rest, c2p,
                            Append(msgs, <<i, "cannot be built on", name>>))
            ELSE IF name \notin DOMAIN c2p
            THEN MemberLoopSkipUndefined(ifs, i, rest, (name :> <<i>>) @@ c2p, msgs)
            ELSE LET r == ClaimLoop(ifs, i, name, c2p[name], c2p, msgs)
                 IN MemberLoopSkipUndefined(ifs, i, rest, r.c2p, r.msgs)

\* MemberLoop without the rule that a VLAN is not built on a VLAN.
RECURSIVE MemberLoopVlanOnVlan(_, _, _, _, _)
MemberLoopVlanOnVlan(ifs, i, names, c2p, msgs) ==
    IF names = <<>> THEN [c2p |-> c2p, msgs |-> msgs]
    ELSE LET name == Head(names)
             rest == Tail(names)
             t    == ifs[i].Type
         IN IF name \notin DOMAIN ifs
            THEN MemberLoopVlanOnVlan(ifs, i, rest, c2p,
                            Append(msgs, <<i, "refers to undefined sub interface", name>>))
            ELSE IF t = "bond" /\ ifs[name].Type # "physical"
            THEN MemberLoopVlanOnVlan(ifs, i, rest, c2p,
                            Append(msgs, <<i, "refers to", name, "which is not a physical interface">>))
            ELSE IF t = "bridge" /\ ifs[name].Type = t
            THEN MemberLoopVlanOnVlan(ifs, i, rest, c2p,
                            Append(msgs, <<i, "cannot be built on", name>>))
            ELSE IF name \notin DOMAIN c2p
            THEN MemberLoopVlanOnVlan(ifs, i, rest, (name :> <<i>>) @@ c2p, msgs)
            ELSE LET r == ClaimLoop(ifs, i, name, c2p[name], c2p, msgs)
                 IN MemberLoopVlanOnVlan(ifs, i, rest, r.c2p, r.msgs)

\* The loop over the (sorted) members of node i.
RECURSIVE MemberLoop(_, _, _, _, _)
MemberLoop(ifs, i, names, c2p, msgs) ==
    IF names = <<>> THEN [c2p |-> c2p, msgs |-> msgs]
    ELSE LET name == Head(names)
             rest == Tail(names)
             t    == ifs[i].Type
         IN IF name \notin DOMAIN ifs
            THEN MemberLoop(ifs, i, rest, c2p,
                            Append(msgs, <<i, "refers to undefined sub interface", name>>))
            ELSE IF t = "bond" /\ ifs[name].Type # "physical"
            THEN MemberLoop(ifs, i, rest, c2p,
                            Append(msgs, <<i, "refers to", name, "which is not a physical interface">>))
            ELSE IF t \in {"bridge", "vlan"} /\ ifs[name].Type = t
            THEN MemberLoop(ifs, i, rest, c2p,
                            Append(msgs, <<i, "cannot be built on", name>>))
            ELSE IF name \notin DOMAIN c2p
            THEN MemberLoop(ifs, i, rest, (name :> <<i>>) @@ c2p, msgs)
            ELSE LET r == ClaimLoop(ifs, i, name, c2p[name], c2p, msgs)
                 IN MemberLoop(ifs, i, rest, r.c2p, r.msgs)

\* Interface.validate(l): the members as sorted in place, the new
\* Child2Parent and the messages of Err{Prefix: Type:MatchID}.
validate(ifs, i, c2p) ==
    IF ifs[i].Type = "physical"
    THEN [members |-> ifs[i].Interfaces, c2p |-> c2p,
          msgs |-> IF Len(ifs[i].Interfaces) > 0
                   THEN << <<i, "must not refer to sub interfaces">> >> ELSE <<>>]
    ELSE LET nw     == IF ifs[i].Network.nil THEN <<>>
                       ELSE Merge(<<>>, <<"network">>, NetworkValidate(ifs[i].Network))
             sorted == SortStrings(ifs[i].Interfaces)
             r      == MemberLoop(ifs, i, sorted, c2p, nw)
         IN [members |-> sorted, c2p |-> r.c2p, msgs |-> r.msgs]

-----------------------------------------------------------------------------
(* Layout.cyclic: the walk along Child2Parent from intf.                   *)

RECURSIVE cyclic(_, _, _, _, _)
RECURSIVE cyclicNext(_, _, _, _, _)

cyclic(c2p, intf, working, cl, msgs) ==
    IF intf \in cl THEN [clean |-> cl, msgs |-> msgs]
    ELSE IF intf \notin DOMAIN c2p
    THEN [clean |-> cl \cup Range(working), msgs |-> msgs]
    ELSE IF intf \in Range(working)
    THEN [clean |-> cl, msgs |-> Append(msgs, <<intf, "Cycle detected", working>>)]
    ELSE cyclicNext(c2p, c2p[intf], Append(working, intf), cl, msgs)

cyclicNext(c2p, next, working, cl, msgs) ==
    IF next = <<>> THEN [clean |-> cl, msgs |-> msgs]
    ELSE LET r == cyclic(c2p, Head(next), working, cl, msgs)
         IN cyclicNext(c2p, Tail(next), working, r.clean, r.msgs)

-----------------------------------------------------------------------------
(* Layout.Validate as a sequence of steps.                                 *)

\* The first name, in sorted order, that the per-node loop has not visited.
NextMember == CHOOSE k \in todo : \A o \in todo : Rank(k) <= Rank(o)

\* Entry: Child2Parent is reset, the sorted key list is built.  Roots is
\* not touched.
ValidateBegin ==
    /\ pc = "begin"
    /\ Child2Parent' = << >>
    /\ verr' = <<>>
    /\ todo' = DOMAIN Interfaces
    /\ clean' = {}
    /\ pc' = "nodes"
    /\ UNCHANGED <<Interfaces, Roots, calls, prev, cvars, wvars, mvars>>

\* One iteration of the first loop: v := l.Interfaces[k]; e.Merge(v.validate(l)).
\* sort.Strings sorts the member slice the stored node shares.
NodeStep(st, k) ==
    LET r == validate(st.ifs, k, st.c2p)
    IN [ifs  |-> [st.ifs EXCEPT ![k].Interfaces = r.members],
        c2p  |-> r.c2p,
        verr |-> Merge(st.verr, <<st.ifs[k].Type, st.ifs[k].MatchID>>, r.msgs)]

ValidateNode ==
    /\ pc = "nodes"
    /\ todo # {}
    /\ LET k == NextMember
           r == NodeStep([ifs |-> Interfaces, c2p |-> Child2Parent, verr |-> verr], k)
       IN /\ Interfaces' = r.ifs
          /\ Child2Parent' = r.c2p
          /\ verr' = r.verr
          /\ todo' = todo \ {k}
    /\ UNCHANGED <<Roots, pc, clean, calls, prev, cvars, wvars, mvars>>

\* ValidateReject computing Roots before it returns.
ValidateRejectWithRoots ==
    /\ pc = "nodes"
    /\ todo = {}
    /\ verr # <<>>
    /\ Roots' = SetToSortedSeq(DOMAIN Interfaces \ DOMAIN Child2Parent)
    /\ pc' = "done"
    /\ UNCHANGED <<Interfaces, Child2Parent, verr, todo, clean, calls, prev, cvars, wvars, mvars>>

\* if !e.Empty() { return e }
ValidateReject ==
    /\ pc = "nodes"
    /\ todo = {}
    /\ verr # <<>>
    /\ pc' = "done"
    /\ UNCHANGED <<Interfaces, Child2Parent, Roots, verr, todo, clean, calls, prev, cvars, wvars, mvars>>

\* StripMembers clearing the Network of the members of VLANs as well.
StripMembersOfAll(ifs) ==
    LET owned == UNION {Range(ifs[k].Interfaces) : k \in DOMAIN ifs}
    IN [n \in DOMAIN ifs |->
          IF n \in owned THEN [ifs[n] EXCEPT !.Network = NilNetwork] ELSE ifs[n]]

\* The second loop: the members of every bridge and bond lose their Network.
StripMembers(ifs) ==
    LET owned == UNION {Range(ifs[k].Interfaces) :
                        k \in {n \in DOMAIN ifs : ifs[n].Type \in {"bridge", "bond"}}}
    IN [n \in DOMAIN ifs |->
          IF n \in owned THEN [ifs[n] EXCEPT !.Network = NilNetwork] ELSE ifs[n]]

ValidateStrip ==
    /\ pc = "nodes"
    /\ todo = {}
    /\ verr = <<>>
    /\ Interfaces' = StripMembers(Interfaces)
    /\ todo' = DOMAIN Interfaces
    /\ clean' = {}
    /\ pc' = "cyclic"
    /\ UNCHANGED <<Child2Parent, Roots, verr, calls, prev, cvars, wvars, mvars>>

\* CyclicStep appending the node to Roots whether or not it has parents.
CyclicStepAllRoots(c2p, st, k) ==
    LET r == cyclic(c2p, k, <<>>, st.clean, st.verr)
    IN [roots |-> Append(st.roots, k),
        clean |-> r.clean,
        verr  |-> r.msgs]

\* One iteration of the third loop: a node without parents is appended to
\* Roots, then cyclic walks up from it.
CyclicStep(c2p, st, k) ==
    LET r == cyclic(c2p, k, <<>>, st.clean, st.verr)
    IN [roots |-> IF k \in DOMAIN c2p THEN st.roots ELSE Append(st.roots, k),
        clean |-> r.clean,
        verr  |-> r.msgs]

\* The loop ranges over the map: any unvisited key can come next.
ValidateCyclic ==
    /\ pc = "cyclic"
    /\ \E k \in todo :
         LET r == CyclicStep(Child2Parent, [roots |-> Roots, clean |-> clean, verr |-> verr], k)
         IN /\ Roots' = r.roots
            /\ clean' = r.clean
            /\ verr' = r.verr
            /\ todo' = todo \ {k}
    /\ UNCHANGED <<Interfaces, Child2Parent, pc, calls, prev, cvars, wvars, mvars>>

\* ValidateReturn leaving Roots in the order of the third loop.
ValidateReturnUnsorted ==
    /\ pc = "cyclic"
    /\ todo = {}
    /\ Roots' = Roots
    /\ pc' = "done"
    /\ UNCHANGED <<Interfaces, Child2Parent, verr, todo, clean, calls, prev, cvars, wvars, mvars>>

\* sort.Strings(l.Roots); return e.OrNil()
ValidateReturn ==
    /\ pc = "cyclic"
    /\ todo = {}
    /\ Roots' = SortStrings(Roots)
    /\ pc' = "done"
    /\ UNCHANGED <<Interfaces, Child2Parent, verr, todo, clean, calls, prev, cvars, wvars, mvars>>

\* The caller validates the layout once more.
ValidateAgain ==
    /\ pc = "done"
    /\ calls < MaxCalls
    /\ calls' = calls + 1
    /\ prev' = [Roots |-> Roots, Child2Parent |-> Child2Parent, ok |-> verr = <<>>]
    /\ pc' = "begin"
    /\ UNCHANGED <<Interfaces, Child2Parent, Roots, verr, todo, clean, cvars, wvars, mvars>>

-----------------------------------------------------------------------------
(* Netplan.Compile                                                         *)

\* addOther: the node is stored unless its name is taken; then every NIC
\* whose name matches one of the node's member names is added as a
\* physical node, unless a node of that name exists.
RECURSIVE AddSubs(_, _)
AddSubs(ifs, subs) ==
    IF subs = <<>> THEN ifs
    ELSE LET newIntf == [Head(subs) EXCEPT !.MatchID = Head(subs).Name]
         IN AddSubs(IF newIntf.Name \in DOMAIN ifs THEN ifs
                    ELSE (newIntf.Name :> newIntf) @@ ifs,
                    Tail(subs))

RECURSIVE AddMembers(_, _)
AddMembers(ifs, names) ==
    IF names = <<>> THEN ifs
    ELSE AddMembers(AddSubs(ifs, MatchPhys([NoMatch EXCEPT !.Name = Head(names)],
                                           NewInterface, Phys)),
                    Tail(names))

addOtherLastWins(cs, name, matchID, i) ==
    LET intf == [i EXCEPT !.Name = name, !.MatchID = matchID]
        dup  == name \in DOMAIN cs.ifs
    IN [cs EXCEPT !.errs = IF dup
                           THEN Append(@, <<"Duplicate network definition", name,
                                            "also defined in", cs.ifs[name].Type>>)
                           ELSE @,
                  !.ifs = AddMembers((name :> intf) @@ cs.ifs, intf.Interfaces)]

addOther(cs, name, matchID, i) ==
    LET intf == [i EXCEPT !.Name = name, !.MatchID = matchID]
        dup  == name \in DOMAIN cs.ifs
        ifs1 == IF dup THEN cs.ifs ELSE (name :> intf) @@ cs.ifs
    IN [cs EXCEPT
          !.errs = IF dup
                   THEN Append(@, <<"Duplicate network definition", name,
                                    "also defined in", cs.ifs[name].Type>>)
                   ELSE @,
          !.ifs = AddMembers(ifs1, intf.Interfaces)]

RECURSIVE AddAll(_, _, _)
AddAll(cs, matchID, realInts) ==
    IF realInts = <<>> THEN cs
    ELSE AddAll(addOther(cs, Head(realInts).Name, matchID, Head(realInts)),
                matchID, Tail(realInts))

\* realSubs: the names that are ethernet ids are replaced by their NICs
SubstituteNothing(mc, names) == names

RECURSIVE Substitute(_, _)
Substitute(mc, names) ==
    IF names = <<>> THEN <<>>
    ELSE (IF Head(names) \in DOMAIN mc THEN mc[Head(names)] ELSE <<Head(names)>>)
         \o Substitute(mc, Tail(names))

realSubs(mc, names) == SortStrings(Substitute(mc, names))

\* util.ValidateInt(e, "version", n.Network.Version, 2, 2) and the Wifis test
SupportedVersion == 2

GuardStep(n) ==
    ValidateInt("version", VInt(n.Version), Wide(SupportedVersion), Wide(SupportedVersion)).msgs
    \o (IF n.Wifis THEN << <<"Wifi interfaces not supported">> >> ELSE <<>>)

\* One iteration of the loop over getNames(n.Network.Ethernets): what is
\* done with the NICs the declaration resolves to,
EthernetAddUnresolved(cs, k, realInts) ==
    [AddAll(cs, k, realInts) EXCEPT
        !.mc = (k :> [j \in 1..Len(realInts) |-> realInts[j].Name]) @@ @]

EthernetAdd(cs, k, realInts) ==
    IF realInts = <<>>
    THEN [cs EXCEPT !.errs = Append(@, <<"Ethernet interface", k,
                                         "does not resolve to any interfaces">>)]
    ELSE [AddAll(cs, k, realInts) EXCEPT
            !.mc = (k :> [j \in 1..Len(realInts) |-> realInts[j].Name]) @@ @]

\* with the parsed declaration,
EthernetPlace(cs, k, p) ==
    IF p.panic THEN [cs EXCEPT !.errs = @ \o p.msgs, !.panic = TRUE]
    ELSE IF ~p.ok
    THEN [cs EXCEPT !.errs = @ \o p.msgs, !.dropped = @ \cup {<<"ethernet", k>>}]
    ELSE EthernetAdd([cs EXCEPT !.errs = @ \o p.msgs], k,
                     matchPhys([p.res EXCEPT !.Intf.MatchID = k], Phys))

\* and the whole iteration.
EthernetStep(cs, k, v, ord) == EthernetPlace(cs, k, ethernet(v, ord))

\* One iteration of the loops over Bonds, Bridges and Vlans
OtherPlace(cs, kind, k, p) ==
    IF p.panic THEN [cs EXCEPT !.errs = @ \o p.msgs, !.panic = TRUE]
    ELSE IF p.ok THEN addOther([cs EXCEPT !.errs = @ \o p.msgs], k, k, p.res)
    ELSE [cs EXCEPT !.errs = @ \o p.msgs, !.dropped = @ \cup {<<kind, k>>}]

OtherStep(cs, kind, k, v, ord) ==
    OtherPlace(cs, kind, k, IF kind = "vlan" THEN vlan(v, ord) ELSE bb(kind, v, ord))

\* One iteration of the loop that rewrites the members of every node
SubsStep(ifs, mc, k) == [ifs EXCEPT ![k].Interfaces = realSubs(mc, @)]

\* The loops of Compile, in their order, and the keys each ranges over.
After(stage) ==
    CASE stage = "guard" -> "ethernets"
      [] stage = "ethernets" -> "bonds"
      [] stage = "bonds" -> "bridges"
      [] stage = "bridges" -> "vlans"
      [] stage = "vlans" -> "subs"
      [] stage = "subs" -> "begin"

StageKeys(n, stage, ifs) ==
    CASE stage = "ethernets" -> DOMAIN n.Ethernets
      [] stage = "bonds" -> DOMAIN n.Bonds
      [] stage = "bridges" -> DOMAIN n.Bridges
      [] stage = "vlans" -> DOMAIN n.Vlans
      [] stage = "subs" -> DOMAIN ifs
      [] OTHER -> {}

\* The position after the loop of `stage` has visited all but `rest`.
RECURSIVE Continue(_, _, _, _)
Continue(n, stage, rest, ifs) ==
    IF rest # {} \/ stage = "begin" THEN [pc |-> stage, todo |-> rest]
    ELSE Continue(n, After(stage), StageKeys(n, After(stage), ifs), ifs)

CompileState ==
    [ifs |-> Interfaces, mc |-> matchChildren, errs |-> errs, dropped |-> dropped,
     panic |-> FALSE]

Install(cs, stage, rest) ==
    /\ Interfaces' = cs.ifs
    /\ matchChildren' = cs.mc
    /\ errs' = cs.errs
    /\ dropped' = cs.dropped
    /\ pc' = IF cs.panic THEN "panic" ELSE Continue(np, stage, rest, cs.ifs).pc
    /\ todo' = IF cs.panic THEN rest ELSE Continue(np, stage, rest, cs.ifs).todo
    /\ UNCHANGED <<Child2Parent, Roots, verr, clean, calls, prev, np, wvars, mvars>>

CompileGuard ==
    /\ pc = "guard"
    /\ Install([CompileState EXCEPT !.errs = GuardStep(np)], "guard", {})

CompileEthernet ==
    /\ pc = "ethernets"
    /\ LET k == NextMember
       IN \E ord \in Perms(AllKeys(np.Ethernets[k])) :
            Install(EthernetStep(CompileState, k, np.Ethernets[k], ord), "ethernets", todo \ {k})

CompileBond ==
    /\ pc = "bonds"
    /\ LET k == NextMember
       IN \E ord \in Perms(AllKeys(np.Bonds[k])) :
            Install(OtherStep(CompileState, "bond", k, np.Bonds[k], ord), "bonds", todo \ {k})

CompileBridge ==
    /\ pc = "bridges"
    /\ LET k == NextMember
       IN \E ord \in Perms(AllKeys(np.Bridges[k])) :
            Install(OtherStep(CompileState, "bridge", k, np.Bridges[k], ord), "bridges", todo \ {k})

CompileVlan ==
    /\ pc = "vlans"
    /\ LET k == NextMember
       IN \E ord \in Perms(AllKeys(np.Vlans[k])) :
            Install(OtherStep(CompileState, "vlan", k, np.Vlans[k], ord), "vlans", todo \ {k})

\* for k, v := range l.Interfaces: the map is visited in any order
CompileSubs ==
    /\ pc = "subs"
    /\ \E k \in todo :
         Install([CompileState EXCEPT !.ifs = SubsStep(Interfaces, matchChildren, k)],
                 "subs", todo \ {k})

\* e.Merge(l.Validate()); return l, e.OrNil()
CompileReturn ==
    /\ pc = "done"
    /\ errs' = Merge(errs, <<"layout">>, verr)
    /\ pc' = "returned"
    /\ UNCHANGED <<Interfaces, Child2Parent, Roots, verr, todo, clean, calls, prev,
                   np, matchChildren, dropped, wvars, mvars>>

-----------------------------------------------------------------------------
(* SpecValidate: Validate on every layout with at most MaxEdges            *)
(* membership edges over a fixed set of typed names.                       *)

EmptyNetplan ==
    [Version |-> 2, Wifis |-> FALSE, Ethernets |-> EmptyMap, Bonds |-> EmptyMap,
     Bridges |-> EmptyMap, Vlans |-> EmptyMap]

TypeOf(n) ==
    CASE n \in {"e1", "e2"} -> "physical"
      [] n = "b1" -> "bond"
      [] n = "r1" -> "bridge"
      [] OTHER -> "vlan"

EdgeOwners == {"a1", "b1", "r1", "v1", "v2"}
EdgeMembers == {"b1", "e1", "r1", "v1", "v2", "zz"}
EdgeUniverse == EdgeOwners \X EdgeMembers

RECURSIVE SubsetsUpTo(_, _)
SubsetsUpTo(S, k) ==
    IF k = 0 THEN {{}}
    ELSE LET p == SubsetsUpTo(S, k - 1)
         IN p \cup {q \cup {x} : q \in p, x \in S}

LayoutOf(E) ==
    LET nodes == ({e[1] : e \in E} \cup {e[2] : e \in E}) \ {"zz"}
    IN [n \in nodes |->
          [NewInterface EXCEPT
             !.Type = TypeOf(n), !.MatchID = n, !.Name = n,
             !.Network = NetworkOf(EmptyMap),
             !.Interfaces = SetToSortedSeq({e[2] : e \in {d \in E : d[1] = n}})]]

NoPrev == [Roots |-> <<>>, Child2Parent |-> << >>, ok |-> FALSE]

\* No top-level call is running: Validate and Netplan.Compile touch no file.
\* MatchPhys is not being run on its own.
NoLookup ==
    /\ match = NoMatch
    /\ cands = <<>>
    /\ found = <<>>

NoWrite ==
    /\ final = << >>
    /\ tmp = << >>
    /\ written = {}
    /\ stack = <<>>
    /\ werr = <<>>
    /\ before = << >>
    /\ result = "none"
    /\ faults = 0

InitValidate ==
    /\ \E E \in SubsetsUpTo(EdgeUniverse, MaxEdges) : Interfaces = LayoutOf(E)
    /\ Child2Parent = << >>
    /\ Roots = <<>>
    /\ verr = <<>>
    /\ pc = "begin"
    /\ todo = {}
    /\ clean = {}
    /\ calls = 1
    /\ prev = NoPrev
    /\ np = EmptyNetplan
    /\ errs = <<>>
    /\ matchChildren = << >>
    /\ dropped = {}
    /\ NoWrite
    /\ NoLookup

NextValidate ==
    \/ ValidateBegin
    \/ ValidateNode
    \/ ValidateReject
    \/ ValidateStrip
    \/ ValidateCyclic
    \/ ValidateReturn
    \/ ValidateAgain

SpecValidate == InitValidate /\ [][NextValidate]_vars

-----------------------------------------------------------------------------
(* SpecCyclic: Layout.Validate with the recursion of Layout.cyclic taken   *)
(* one call at a time.  A pending call is [intf, working], the arguments   *)
(* it is made with; stack holds the calls still to be made, the next one   *)
(* first.  clean and the collector e are shared by all the calls.          *)

\* cyclic without the search of working for intf.
cyclicCallNoPathCheck(c2p, st) ==
    LET intf    == Head(st.stack).intf
        working == Head(st.stack).working
    IN IF intf \in st.clean THEN [st EXCEPT !.stack = Tail(@)]
       ELSE IF intf \notin DOMAIN c2p
       THEN [st EXCEPT !.clean = @ \cup Range(working), !.stack = Tail(@)]
       ELSE [st EXCEPT !.stack = [j \in 1..Len(c2p[intf]) |->
                                    [intf |-> c2p[intf][j], working |-> Append(working, intf)]]
                                 \o Tail(@)]

\* One call of cyclic, up to its own calls: it returns at a clean node, at
\* a node without parents (the nodes of working become clean) and at a
\* node that is on working already (a cycle is reported); otherwise the
\* calls for the parents of intf, in the order of next and with intf
\* appended to working, are the next ones to be made.
cyclicCall(c2p, st) ==
    LET intf    == Head(st.stack).intf
        working == Head(st.stack).working
    IN IF intf \in st.clean THEN [st EXCEPT !.stack = Tail(@)]
       ELSE IF intf \notin DOMAIN c2p
       THEN [st EXCEPT !.clean = @ \cup Range(working), !.stack = Tail(@)]
       ELSE IF intf \in Range(working)
       THEN [st EXCEPT !.verr = Append(@, <<intf, "Cycle detected", working>>),
                       !.stack = Tail(@)]
       ELSE [st EXCEPT !.stack = [j \in 1..Len(c2p[intf]) |->
                                    [intf |-> c2p[intf][j], working |-> Append(working, intf)]]
                                 \o Tail(@)]

\* One turn of the third loop of Validate up to its call of cyclic: any
\* unvisited key can come next, a node without parents is appended to
\* Roots, and l.cyclic(k, []string{}, cleanInterfaces, e) is to be made.
ValidateWalk ==
    /\ pc = "cyclic"
    /\ \E k \in todo :
         /\ Roots' = IF k \in DOMAIN Child2Parent THEN Roots ELSE Append(Roots, k)
         /\ stack' = << [intf |-> k, working |-> <<>>] >>
         /\ todo' = todo \ {k}
    /\ pc' = "walk"
    /\ UNCHANGED <<Interfaces, Child2Parent, verr, clean, calls, prev, cvars, mvars,
                   final, tmp, written, werr, before, result, faults>>

\* The next pending call of cyclic is made; the loop of Validate goes on
\* when no call is left.
ValidateWalkCall ==
    /\ pc = "walk"
    /\ LET r == cyclicCall(Child2Parent, [stack |-> stack, clean |-> clean, verr |-> verr])
       IN /\ stack' = r.stack
          /\ clean' = r.clean
          /\ verr' = r.verr
          /\ pc' = IF r.stack = <<>> THEN "cyclic" ELSE "walk"
    /\ UNCHANGED <<Interfaces, Child2Parent, Roots, todo, calls, prev, cvars, mvars,
                   final, tmp, written, werr, before, result, faults>>

NextCyclic ==
    \/ ValidateBegin
    \/ ValidateNode
    \/ ValidateReject
    \/ ValidateStrip
    \/ ValidateWalk
    \/ ValidateWalkCall
    \/ ValidateReturn

SpecCyclic == InitValidate /\ [][NextCyclic]_vars

-----------------------------------------------------------------------------
(* Spec: Netplan.Compile on every netplan made of at most MaxDecls of the  *)
(* declarations below, against the NICs of Phys.                           *)

Decl(kind, key, body) == [kind |-> kind, key |-> key, body |-> VMap(body)]

Members(l) == "interfaces" :> VList(l)

Candidates ==
    << Decl("ethernet", "e1", EmptyMap),
       Decl("ethernet", "e1", ("optional" :> VStr("maybe")) @@ ("wakeonlan" :> VInt(7))),
       Decl("ethernet", "e2", EmptyMap),
       Decl("ethernet", "e2", "gateway4" :> VAddr(6)),
       Decl("ethernet", "e2", "bogus" :> VInt(1)),
       Decl("ethernet", "e2", "set-name" :> VStr("x")),
       Decl("ethernet", "up", "match" :> VMap("name" :> VStr("e*"))),
       Decl("ethernet", "zz", EmptyMap),
       Decl("bond", "b1", Members(<<"e2", "e1">>)),
       Decl("bond", "b1", Members(<<"up">>)),
       Decl("bridge", "r1", Members(<<"e1">>)),
       Decl("bridge", "r1", Members(<<"v1">>)),
       Decl("bridge", "r1", Members(<<"b1">>) @@ ("dhcp-identifier" :> VStr("duid"))),
       Decl("bridge", "b1", Members(<<"e2">>)),
       Decl("vlan", "v1", ("link" :> VStr("r1")) @@ ("id" :> VInt(1))),
       Decl("vlan", "a1", ("link" :> VStr("r1")) @@ ("id" :> VInt(2))),
       Decl("vlan", "v1", "link" :> VStr("e1")),
       Decl("vlan", "v2", ("link" :> VStr("up")) @@ ("id" :> VInt(1))),
       Decl("vlan", "v2", ("link" :> VStr("v1")) @@ ("id" :> VInt(5000))),
       Decl("vlan", "v2", "id" :> VInt(2)),
       Decl("version", "", EmptyMap),
       Decl("wifis", "", EmptyMap),
       Decl("bridge", "r1", Members(<<"zz">>)),
       Decl("ethernet", "e2", "gateway4" :> VNull),
       Decl("bridge", "r1", Members(<<"e1">>) @@
                            ("routes" :> VSeq(<<VMap("to" :> VAddr(4))>>))),
       Decl("bond", "b1", Members(<<"e2">>) @@ ("macaddress" :> VNull)),
       Decl("bridge", "r1", Members(<<"e1">>) @@ ("gateway6" :> VAddr(6)) @@
                            ("routing-policy" :> VSeq(<<VMap("from" :> VCidr(4))>>))),
       Decl("ethernet", "e1", "dhcp4-overrides" :>
                                VMap(("use-dns" :> VStr("x")) @@ ("use-ntp" :> VStr("y")))) >>

\* The sets of declarations that can stand in one document: a map holds
\* one body per key.
Documents ==
    {S \in SubsetsUpTo(1..Len(Candidates), MaxDecls) :
        \A i, j \in S : i # j =>
            <<Candidates[i].kind, Candidates[i].key>> # <<Candidates[j].kind, Candidates[j].key>>}

NetplanOf(S) ==
    LET Of(kind) ==
            LET idx == {i \in S : Candidates[i].kind = kind}
            IN [k \in {Candidates[i].key : i \in idx} |->
                  Candidates[CHOOSE i \in idx : Candidates[i].key = k].body]
    IN [Version   |-> IF \E i \in S : Candidates[i].kind = "version"
                      THEN SupportedVersion + 1 ELSE SupportedVersion,
        Wifis     |-> \E i \in S : Candidates[i].kind = "wifis",
        Ethernets |-> Of("ethernet"),
        Bonds     |-> Of("bond"),
        Bridges   |-> Of("bridge"),
        Vlans     |-> Of("vlan")]

Init ==
    /\ \E S \in Documents : np = NetplanOf(S)
    /\ Interfaces = << >>
    /\ Child2Parent = << >>
    /\ Roots = <<>>
    /\ verr = <<>>
    /\ pc = "guard"
    /\ todo = {}
    /\ clean = {}
    /\ calls = 1
    /\ prev = NoPrev
    /\ errs = <<>>
    /\ matchChildren = << >>
    /\ dropped = {}
    /\ NoWrite
    /\ NoLookup

Next ==
    \/ CompileGuard
    \/ CompileEthernet
    \/ CompileBond
    \/ CompileBridge
    \/ CompileVlan
    \/ CompileSubs
    \/ ValidateBegin
    \/ ValidateNode
    \/ ValidateReject
    \/ ValidateStrip
    \/ ValidateCyclic
    \/ ValidateReturn
    \/ CompileReturn

Spec == Init /\ [][Next]_vars

-----------------------------------------------------------------------------
(* SpecWrite: the top-level Compile from netplan to systemd or to rhel.    *)
(* A file is <<interface name, extension>>, its content is "old", "new",   *)
(* "partial" or "empty".  At most MaxFaults file operations fail in one    *)
(* run.                                                                    *)

lvars == <<Interfaces, Child2Parent, Roots, verr, todo, clean, calls, prev, cvars>>

MayFail == faults < MaxFaults

\* The destination of the internal format and of Netplan.Write is a file.
\* A destination that is a regular file holds the one entry DestFile, one
\* that holds other entries is a directory, and << >> is an empty
\* directory or a path at which nothing exists.
DestFile == <<"", "file">>

IsRegular(dir) == DestFile \in DOMAIN dir

IsDirectory(dir) == dir # << >> /\ ~IsRegular(dir)

\* os.Create(dest) and out.Write(buf).  how is "ok" or the call that
\* fails: "create" leaves the destination alone, "write" leaves what was
\* written of the truncated file, nothing ("empty") or a part ("partial").
CreateAndWrite(dir, how, left) ==
    IF how = "create" THEN dir
    ELSE IF how = "ok" THEN DestFile :> "new"
    ELSE DestFile :> left

\* os.Create fails on a directory; any other failure is a fault
CanCreate(how) ==
    /\ IsDirectory(final) => how = "create"
    /\ (how # "ok" /\ ~IsDirectory(final)) => MayFail

CreateFaults(how) == IF how = "ok" \/ IsDirectory(final) THEN 0 ELSE 1

\* Systemd.create: the .network file and the .link or .netdev file
LinkExt(i) == IF i.Type = "physical" THEN "link" ELSE "netdev"

\* What writeOut leaves in the two files of a node: the link file of a NIC
\* is empty unless wakeonlan is set.
Rendered(i) ==
    (<<i.Name, "network">> :> "new") @@
    (<<i.Name, LinkExt(i)>> :>
        IF i.Type = "physical" /\ ~Get(i.Parameters, "wakeonlan", FALSE)
        THEN "empty" ELSE "new")

\* filepath.Glob(path.Join(src, "*")): the files of dir in sorted order
FileExts == <<"link", "netdev", "network">>

RECURSIVE GlobFiles(_, _)
GlobFiles(dir, names) ==
    IF names = <<>> THEN <<>>
    ELSE LET n == Head(names)
             IsFile(x) == <<n, x>> \in DOMAIN dir
         IN [j \in 1..Len(SelectSeq(FileExts, IsFile)) |-> <<n, SelectSeq(FileExts, IsFile)[j]>>]
            \o GlobFiles(dir, Tail(names))

Glob(dir) == GlobFiles(dir, SetToSortedSeq({f[1] : f \in DOMAIN dir}))

\* in.Read fails before Netplan.Compile runs: the source cannot be opened
\* or is not YAML.  With srcFmt "internal" in is the nil layout, and
\* Layout.Read on it fails for every source.
ReadFail ==
    /\ pc = "read"
    /\ result' = "error"
    /\ pc' = "exit"
    /\ UNCHANGED <<lvars, mvars, final, tmp, written, stack, werr, before, faults>>

\* srcFmt "netplan": Netplan.Read has read the document and calls
\* n.Compile(phys)
ReadCompile ==
    /\ pc = "read"
    /\ pc' = "guard"
    /\ UNCHANGED <<lvars, wvars, mvars>>

\* if err != nil { return fmt.Errorf("Error reading ...") }
CompileFailed ==
    /\ pc = "returned"
    /\ errs # <<>>
    /\ result' = "error"
    /\ pc' = "exit"
    /\ UNCHANGED <<lvars, mvars, final, tmp, written, stack, werr, before, faults>>

\* ioutil.TempDir fails
WriteTempFail ==
    /\ pc = "returned"
    /\ errs = <<>>
    /\ MayFail
    /\ faults' = faults + 1
    /\ result' = "error"
    /\ pc' = "exit"
    /\ UNCHANGED <<lvars, mvars, final, tmp, written, stack, werr, before>>

\* Systemd.Write up to the loop over s.Roots
WriteBegin ==
    /\ pc = "returned"
    /\ errs = <<>>
    /\ tmp' = << >>
    /\ written' = {}
    /\ stack' = Roots
    /\ werr' = <<>>
    /\ pc' = "render"
    /\ UNCHANGED <<lvars, mvars, final, before, result, faults>>

\* destFmt "internal": out = layout, a noop BindMacs, Layout.Write and the
\* return of the top-level Compile.  os.Create makes or truncates the file
\* before the layout is written to it.
LayoutWrite ==
    /\ pc = "returned"
    /\ errs = <<>>
    /\ \E how \in {"ok", "create", "write"}, left \in {"empty", "partial"} :
         /\ how # "write" => left = "empty"
         /\ CanCreate(how)
         /\ final' = CreateAndWrite(final, how, left)
         /\ faults' = faults + CreateFaults(how)
         /\ result' = IF how = "ok" THEN "ok" ELSE "error"
    /\ pc' = "exit"
    /\ UNCHANGED <<lvars, mvars, tmp, written, stack, werr, before>>

\* writeOut without the calls for the members of the node.
WriteOutStepNoMembers(st, i, bad) ==
    IF i.Name \in st.written THEN [st EXCEPT !.stack = Tail(@)]
    ELSE [st EXCEPT !.written = @ \cup {i.Name},
                    !.tmp = Rendered(i) @@ @,
                    !.stack = Tail(@)]

\* One call of writeOut.  bad is the file, if any, whose os.Create fails.
WriteOutStep(st, i, bad) ==
    IF i.Name \in st.written THEN [st EXCEPT !.stack = Tail(@)]
    ELSE IF bad = "none"
    THEN [st EXCEPT !.written = @ \cup {i.Name},
                    !.tmp = Rendered(i) @@ @,
                    !.stack = i.Interfaces \o Tail(@)]
    ELSE [st EXCEPT !.written = @ \cup {i.Name},
                    !.tmp = (IF bad = "network" THEN <<i.Name, LinkExt(i)>> :> "empty"
                             ELSE <<i.Name, "network">> :> "empty") @@ @,
                    !.werr = Append(@, <<"Error creating", i.Name, bad>>),
                    !.stack = Tail(@)]

WriteOut ==
    /\ pc = "render"
    /\ stack # <<>>
    /\ \E bad \in {"none", "network", "link"} :
         /\ bad # "none" => MayFail /\ Head(stack) \notin written
         /\ LET r == WriteOutStep([written |-> written, tmp |-> tmp, werr |-> werr,
                                   stack |-> stack], Interfaces[Head(stack)], bad)
            IN /\ written' = r.written
               /\ tmp' = r.tmp
               /\ werr' = r.werr
               /\ stack' = r.stack
         /\ faults' = IF bad = "none" THEN faults ELSE faults + 1
    /\ UNCHANGED <<lvars, mvars, pc, final, before, result>>

\* if !e.Empty() { return e }, and the deferred os.RemoveAll(tmp)
WriteRenderFailed ==
    /\ pc = "render"
    /\ stack = <<>>
    /\ werr # <<>>
    /\ tmp' = << >>
    /\ result' = "error"
    /\ pc' = "exit"
    /\ UNCHANGED <<lvars, mvars, final, written, stack, werr, before, faults>>

\* What is left of the final destination when the files of gone are
\* removed: the result of the removal is not looked at, a file of kept
\* that cannot be removed stays.
Remaining(dir, gone, kept) == [f \in (DOMAIN dir \ gone) \cup kept |-> dir[f]]

\* Write from the Glob of the final destination up to the loop of
\* util.Copy.  out is "ok" or the call that returns an error: "destglob"
\* (filepath.Glob of the final destination), "srcglob" (filepath.Glob of
\* util.Copy) or "mkdir" (os.MkdirAll of util.Copy).
ReplaceStep(st, gone, kept, names, out) ==
    IF out = "destglob"
    THEN [st EXCEPT !.werr = Append(@, <<"syntax error in pattern">>), !.stack = <<>>]
    ELSE IF out = "srcglob"
    THEN [st EXCEPT !.final = Remaining(@, gone, kept),
                    !.werr = Append(@, <<"syntax error in pattern">>), !.stack = <<>>]
    ELSE IF out = "mkdir"
    THEN [st EXCEPT !.final = Remaining(@, gone, kept),
                    !.werr = Append(@, <<"mkdir failed">>), !.stack = <<>>]
    ELSE [st EXCEPT !.final = Remaining(@, gone, kept), !.stack = names]

\* The outcomes of the calls between the rendering and the loop of Copy: a
\* pattern is bad or not by the path it is made of, os.MkdirAll fails on a
\* destination that is a regular file and can fail where nothing exists,
\* and a removal that fails is a fault.
Replace(gone, names) ==
    \E out \in {"ok", "destglob", "srcglob", "mkdir"}, kept \in SUBSET gone :
        /\ Cardinality(kept) <= MaxFaults - faults
        /\ out = "destglob" => kept = {}
        /\ out = "mkdir" => final = << >> \/ IsRegular(final)
        /\ out = "ok" => ~IsRegular(final)
        /\ LET r == ReplaceStep([final |-> final, werr |-> werr, stack |-> stack],
                                gone, kept, names, out)
           IN /\ final' = r.final
              /\ werr' = r.werr
              /\ stack' = r.stack
        /\ faults' = faults + Cardinality(kept)

\* WriteRemoveOld without the return on a render error.
WriteRemoveOldAfterError ==
    /\ pc = "render"
    /\ stack = <<>>
    /\ Replace(DOMAIN final \ {DestFile}, Glob(tmp))
    /\ pc' = "copy"
    /\ UNCHANGED <<lvars, mvars, tmp, written, before, result>>

\* Every file the Glob of the final destination lists is removed (none when
\* the destination is a regular file), then Copy lists the files of the
\* temporary directory.
WriteRemoveOld ==
    /\ pc = "render"
    /\ stack = <<>>
    /\ werr = <<>>
    /\ Replace(DOMAIN final \ {DestFile}, Glob(tmp))
    /\ pc' = "copy"
    /\ UNCHANGED <<lvars, mvars, tmp, written, before, result>>

\* One iteration of the loop of util.Copy.  how is "ok", or the operation
\* that fails: "stat" (os.Stat), "open" (os.Open of the temporary file),
\* "create" (os.Create of the destination), "both" (os.Open and os.Create)
\* or "copy" (io.Copy).
CopyStep(st, f, content, how) ==
    IF content = "empty" \/ how = "stat" THEN st
    ELSE IF how = "ok" THEN [st EXCEPT !.final = (f :> "new") @@ @]
    ELSE IF how = "open"
    THEN [st EXCEPT !.final = (f :> "empty") @@ @,
                    !.werr = Append(@, <<"Error opening src temp", f[1], f[2]>>)]
    ELSE IF how = "create"
    THEN [st EXCEPT !.werr = Append(@, <<"Error opening dest", f[1], f[2]>>)]
    ELSE IF how = "both"
    THEN [st EXCEPT !.werr = @ \o << <<"Error opening src temp", f[1], f[2]>>,
                                     <<"Error opening dest", f[1], f[2]>> >>]
    ELSE [st EXCEPT !.final = (f :> "partial") @@ @,
                    !.werr = Append(@, <<"Error copying", f[1], f[2]>>)]

CopyFile ==
    /\ pc = "copy"
    /\ stack # <<>>
    /\ \E how \in {"ok", "stat", "open", "create", "both", "copy"} :
         /\ how # "ok" => MayFail /\ tmp[Head(stack)] # "empty"
         /\ how = "both" => faults + 1 < MaxFaults
         /\ LET r == CopyStep([final |-> final, werr |-> werr], Head(stack),
                              tmp[Head(stack)], how)
            IN /\ final' = r.final
               /\ werr' = r.werr
         /\ faults' = IF how = "ok" THEN faults ELSE IF how = "both" THEN faults + 2
                      ELSE faults + 1
    /\ stack' = Tail(stack)
    /\ UNCHANGED <<lvars, mvars, pc, tmp, written, before, result>>

\* return e.OrNil(), the deferred os.RemoveAll(tmp), and the return of the
\* top-level Compile
WriteReturn ==
    /\ pc = "copy"
    /\ stack = <<>>
    /\ tmp' = << >>
    /\ result' = IF werr = <<>> THEN "ok" ELSE "error"
    /\ pc' = "exit"
    /\ UNCHANGED <<lvars, mvars, final, written, stack, werr, before, faults>>

\* Rhel.Write up to the loop over r.Interfaces, a map: the nodes are
\* written in any order.  A file of the rhel format is <<name, "ifcfg">>,
\* <<name, "route">>, <<name, "rule">> or <<name, "rule6">>.
RhelBegin ==
    /\ pc = "returned"
    /\ errs = <<>>
    /\ tmp' = << >>
    /\ written' = {}
    /\ \E ord \in Perms(DOMAIN Interfaces) : stack' = ord
    /\ werr' = <<>>
    /\ pc' = "rhel"
    /\ UNCHANGED <<lvars, mvars, final, before, result, faults>>

RhelExts == <<"ifcfg", "route", "rule", "rule6">>

\* The file a routing policy is written to: rules4 or rules6 by the family
\* of From, or of To when there is no From
RuleExt(rule) ==
    IF rule.From.nil /\ rule.To.nil THEN "none"
    ELSE IF (IF ~rule.From.nil THEN rule.From.IP ELSE rule.To.IP) = 4 THEN "rule"
    ELSE "rule6"

\* The files Rhel.writeOut creates for node i
RhelFiles(i) ==
    {"ifcfg"}
    \cup (IF Configure(i.Network)
          THEN (IF ~i.Network.Gateway6.nil \/ Len(i.Network.Routes) > 0 THEN {"route"} ELSE {})
               \cup ({RuleExt(i.Network.RoutingPolicy[j]) :
                        j \in 1..Len(i.Network.RoutingPolicy)} \ {"none"})
          ELSE {})

\* The type assertions of writeOut that do not hold: the numbers of
\* Parameters are float64, arp-all-targets is a string and arp-ip-targets
\* is no []net.IP
RhelPanics(i) ==
    \/ /\ i.Type = "bridge"
       /\ Get(i.Parameters, "stp", FALSE)
       /\ "forward-delay" \in DOMAIN i.Parameters
    \/ /\ i.Type = "bond"
       /\ {"arp-all-targets", "arp-ip-targets"} \cap DOMAIN i.Parameters # {}

\* nw.Routes = append(nw.Routes, util.Route{Via: nw.Gateway6, To: ::/0})
Gateway6Route(nw) ==
    [From |-> NilIP, To |-> [nil |-> FALSE, IP |-> 6, Mask |-> TRUE], Via |-> nw.Gateway6,
     OnLink |-> FALSE, Metric |-> Wide(0), Type |-> "", Scope |-> "", Table |-> Wide(0)]

\* The nodes whose Network is the one i points to: the NICs that one
\* ethernet declaration matched share the Network of the declaration
Sharers(ifs, i) ==
    IF i.Type # "physical" THEN {i.Name}
    ELSE {n \in DOMAIN ifs : /\ ifs[n].Type = "physical"
                             /\ ifs[n].MatchID = i.MatchID
                             /\ ~ifs[n].Network.nil}

\* One call of Rhel.writeOut.  bad holds the files whose os.Create fails:
\* the message is recorded and the lines are written to no file.
RhelWriteOutStep(st, i, bad) ==
    IF RhelPanics(i) THEN [st EXCEPT !.panic = TRUE]
    ELSE [st EXCEPT
            !.tmp = [f \in {<<i.Name, x>> : x \in RhelFiles(i) \ bad} |-> "new"] @@ @,
            !.werr = @ \o [j \in 1..Len(SelectSeq(RhelExts, LAMBDA x : x \in bad)) |->
                             <<"Error creating", i.Name,
                               SelectSeq(RhelExts, LAMBDA x : x \in bad)[j]>>],
            !.ifs = IF Configure(i.Network) /\ ~i.Network.Gateway6.nil
                    THEN [n \in DOMAIN st.ifs |->
                            IF n \in Sharers(st.ifs, i)
                            THEN [st.ifs[n] EXCEPT !.Network.Routes =
                                                     Append(@, Gateway6Route(i.Network))]
                            ELSE st.ifs[n]]
                    ELSE st.ifs]

\* One iteration of the loop of Rhel.Write.  When writeOut panics, the
\* deferred os.RemoveAll(tmp) of Write runs while the panic unwinds.
RhelWriteOut ==
    /\ pc = "rhel"
    /\ stack # <<>>
    /\ \E bad \in SUBSET RhelFiles(Interfaces[Head(stack)]) :
         /\ Cardinality(bad) <= MaxFaults - faults
         /\ LET r == RhelWriteOutStep([tmp |-> tmp, werr |-> werr, ifs |-> Interfaces,
                                       panic |-> FALSE],
                                      Interfaces[Head(stack)], bad)
            IN /\ tmp' = IF r.panic THEN << >> ELSE r.tmp
               /\ werr' = r.werr
               /\ Interfaces' = r.ifs
               /\ pc' = IF r.panic THEN "panic" ELSE pc
         /\ faults' = faults + Cardinality(bad)
    /\ stack' = Tail(stack)
    /\ UNCHANGED <<Child2Parent, Roots, verr, todo, clean, calls, prev, cvars, mvars,
                   final, written, before, result>>

\* if !e.Empty() { return e }, and the deferred os.RemoveAll(tmp)
RhelRenderFailed ==
    /\ pc = "rhel"
    /\ stack = <<>>
    /\ werr # <<>>
    /\ tmp' = << >>
    /\ result' = "error"
    /\ pc' = "exit"
    /\ UNCHANGED <<lvars, mvars, final, written, stack, werr, before, faults>>

\* filepath.Glob(path.Join(src, "*")) on the files of the rhel format:
\* the names start with the kind of the file
RhelGlob(dir) ==
    Concat([j \in 1..Len(RhelExts) |->
              LET names == SetToSortedSeq({f[1] : f \in {g \in DOMAIN dir : g[2] = RhelExts[j]}})
              IN [k \in 1..Len(names) |-> <<names[k], RhelExts[j]>>]])

\* The files of the final destination that Rhel.Write removes: those its
\* four patterns match, but for the ones of the loopback interface
RhelRemoveOld ==
    /\ pc = "rhel"
    /\ stack = <<>>
    /\ werr = <<>>
    /\ Replace({g \in DOMAIN final : g[2] \in Range(RhelExts) /\ g[1] # "lo"}, RhelGlob(tmp))
    /\ pc' = "copy"
    /\ UNCHANGED <<lvars, mvars, tmp, written, before, result>>

\* The declarations of the documents handed to the top-level Compile
WriteCandidates == {1, 3, 4, 9, 13, 17, 18, 27}

WriteDocuments == {S \in Documents : S \subseteq WriteCandidates}

\* What the final destination holds before the call
OldFiles ==
    { << >>,
      <<"up", "network">> :> "old",
      (<<"e1", "network">> :> "old") @@ (<<"zz", "link">> :> "old"),
      (<<"e1", "ifcfg">> :> "old") @@ (<<"lo", "ifcfg">> :> "old"),
      DestFile :> "old" }

InitWrite ==
    /\ \E S \in WriteDocuments : np = NetplanOf(S)
    /\ \E d \in OldFiles : final = d /\ before = d
    /\ Interfaces = << >>
    /\ Child2Parent = << >>
    /\ Roots = <<>>
    /\ verr = <<>>
    /\ pc = "read"
    /\ todo = {}
    /\ clean = {}
    /\ calls = 1
    /\ prev = NoPrev
    /\ errs = <<>>
    /\ matchChildren = << >>
    /\ dropped = {}
    /\ tmp = << >>
    /\ written = {}
    /\ stack = <<>>
    /\ werr = <<>>
    /\ result = "none"
    /\ faults = 0
    /\ NoLookup

NextWrite ==
    \/ ReadFail
    \/ ReadCompile
    \/ CompileGuard
    \/ CompileEthernet
    \/ CompileBond
    \/ CompileBridge
    \/ CompileVlan
    \/ CompileSubs
    \/ ValidateBegin
    \/ ValidateNode
    \/ ValidateReject
    \/ ValidateStrip
    \/ ValidateCyclic
    \/ ValidateReturn
    \/ CompileReturn
    \/ CompileFailed
    \/ WriteTempFail
    \/ WriteBegin
    \/ LayoutWrite
    \/ WriteOut
    \/ WriteRenderFailed
    \/ WriteRemoveOld
    \/ CopyFile
    \/ WriteReturn
    \/ RhelBegin
    \/ RhelWriteOut
    \/ RhelRenderFailed
    \/ RhelRemoveOld

SpecWrite == InitWrite /\ [][NextWrite]_vars

-----------------------------------------------------------------------------
(* Layout.Read, Layout.Write and Netplan.Write called on a value, outside  *)
(* the top-level Compile.                                                  *)

\* What Layout.Read finds at src.  readable: os.Open and ioutil.ReadAll
\* succeed; yaml: the text is YAML; fields: the fields of Layout the
\* document names, with their values; mistyped: the fields it names with a
\* value of another type (a number where a map or a list is expected).
LayoutSource(readable, yaml, fields, mistyped) ==
    [readable |-> readable, yaml |-> yaml, fields |-> fields, mistyped |-> mistyped]

LayoutSources ==
    { LayoutSource(FALSE, FALSE, << >>, {}),
      LayoutSource(TRUE, FALSE, << >>, {}),
      LayoutSource(TRUE, TRUE, << >>, {}),
      LayoutSource(TRUE, TRUE,
                   [Interfaces |-> LayoutOf({<<"r1", "e1">>}),
                    Child2Parent |-> "e1" :> <<"r1">>,
                    Roots |-> <<"r1">>], {}),
      LayoutSource(TRUE, TRUE, [Interfaces |-> LayoutOf({<<"v1", "e1">>})], {}),
      LayoutSource(TRUE, TRUE, [Roots |-> <<"zz">>], {}),
      LayoutSource(TRUE, TRUE, [Child2Parent |-> "e1" :> <<"e1">>], {"Roots"}),
      LayoutSource(TRUE, TRUE, << >>, {"Interfaces"}) }

\* yaml.Unmarshal(buf, l): an entry of a map of the document is stored
\* under its key in the map of l, whose other entries stay; a list of the
\* document takes the place of the list of l; a field the document does
\* not name, or names with a value of another type, is left alone.
\* Nothing is validated.
Unmarshal(l, fields) ==
    [Interfaces   |-> IF "Interfaces" \in DOMAIN fields
                      THEN fields["Interfaces"] @@ l.Interfaces ELSE l.Interfaces,
     Child2Parent |-> IF "Child2Parent" \in DOMAIN fields
                      THEN fields["Child2Parent"] @@ l.Child2Parent ELSE l.Child2Parent,
     Roots        |-> IF "Roots" \in DOMAIN fields THEN fields["Roots"] ELSE l.Roots]

\* Layout.Read on the layout l: an error of os.Open or ioutil.ReadAll
\* returns before l is touched, every other return is that of
\* yaml.Unmarshal.
LayoutReadStep(l, src) ==
    IF ~src.readable \/ ~src.yaml THEN l ELSE Unmarshal(l, src.fields)

LayoutRead ==
    /\ pc = "call"
    /\ \E src \in LayoutSources :
         /\ LET l == LayoutReadStep([Interfaces |-> Interfaces, Child2Parent |-> Child2Parent,
                                     Roots |-> Roots], src)
            IN /\ Interfaces' = l.Interfaces
               /\ Child2Parent' = l.Child2Parent
               /\ Roots' = l.Roots
         /\ result' = IF src.readable /\ src.yaml /\ src.mistyped = {} THEN result ELSE "error"
         /\ pc' = IF src.readable /\ src.yaml /\ src.mistyped = {} THEN "returned" ELSE "exit"
    /\ UNCHANGED <<verr, todo, clean, calls, prev, cvars, mvars, final, tmp, written, stack,
                   werr, before, faults>>

\* The ethernets Netplan.Write deletes from n.Network.Ethernets: those whose
\* YAML is "{}"
Elided(eths) == {k \in DOMAIN eths : DOMAIN eths[k].v = {}}

\* Netplan.Write on a netplan that Read has filled.  bindMac: n.BindMacs()
\* was called.  Without it the first turn of the loop over the ethernets
\* asserts that the entry is an Ether; yaml.Unmarshal does not store one,
\* so Write panics once os.Create has made or truncated the file.
NetplanWriteStep(st, bindMac, how, left) ==
    IF how = "create" THEN [st EXCEPT !.result = "error"]
    ELSE IF ~bindMac /\ DOMAIN st.np.Ethernets # {}
    THEN [st EXCEPT !.final = DestFile :> "empty", !.panic = TRUE]
    ELSE [st EXCEPT !.np.Ethernets = [k \in DOMAIN @ \ Elided(@) |-> @[k]],
                    !.final = CreateAndWrite(@, how, left),
                    !.result = IF how = "ok" THEN "ok" ELSE "error"]

NetplanWrite ==
    /\ pc = "call"
    /\ \E bindMac \in BOOLEAN, how \in {"ok", "create", "write"}, left \in {"empty", "partial"} :
         /\ how # "write" => left = "empty"
         /\ CanCreate(how)
         /\ (how = "write" /\ ~bindMac) => DOMAIN np.Ethernets = {}
         /\ LET r == NetplanWriteStep([np |-> np, final |-> final, result |-> result,
                                       panic |-> FALSE], bindMac, how, left)
            IN /\ np' = r.np
               /\ final' = r.final
               /\ result' = r.result
               /\ pc' = IF r.panic THEN "panic" ELSE "exit"
         /\ faults' = faults + CreateFaults(how)
    /\ UNCHANGED <<Interfaces, Child2Parent, Roots, verr, todo, clean, calls, prev, errs,
                   matchChildren, dropped, mvars, tmp, written, stack, werr, before>>

\* The netplans and the layouts the calls are made on
FormatDocuments == {S \in Documents : S \subseteq {1, 2, 3, 11}}

FormatLayouts == {LayoutOf(E) : E \in SUBSET {<<"r1", "e1">>, <<"b1", "e2">>}}

InitFormats ==
    /\ \E S \in FormatDocuments : np = NetplanOf(S)
    /\ \E d \in OldFiles : final = d /\ before = d
    /\ \E l \in FormatLayouts : Interfaces = l
    /\ Child2Parent = << >>
    /\ Roots = <<>>
    /\ verr = <<>>
    /\ pc = "call"
    /\ todo = {}
    /\ clean = {}
    /\ calls = 1
    /\ prev = NoPrev
    /\ errs = <<>>
    /\ matchChildren = << >>
    /\ dropped = {}
    /\ tmp = << >>
    /\ written = {}
    /\ stack = <<>>
    /\ werr = <<>>
    /\ result = "none"
    /\ faults = 0
    /\ NoLookup

NextFormats ==
    \/ LayoutRead
    \/ LayoutWrite
    \/ NetplanWrite

SpecFormats == InitFormats /\ [][NextFormats]_vars

-----------------------------------------------------------------------------
(* SpecMatch: util.MatchPhys run on its own.                               *)

\* The NICs a candidate list is made of
NicPool ==
    {Phys[1], Phys[2],
     [Name |-> "zz", StableName |-> "e1", OrdinalName |-> "n1", Driver |-> "d1",
      HardwareAddr |-> "m1", BootIf |-> TRUE]}

RECURSIVE SeqsUpTo(_, _)
SeqsUpTo(S, n) ==
    IF n = 0 THEN {<<>>}
    ELSE {<<>>} \cup UNION {{<<x>> \o q : q \in SeqsUpTo(S \ {x}, n - 1)} : x \in S}

MatchNames == {"", "e1", "e*", "e?", "s1", "n2", "zz", "bootif", "^e"}
MatchMacs == {"", "m1", "m2"}
MatchDrivers == {"", "d1", "d*"}

\* The tmpl argument
MatchTemplate == [NewInterface EXCEPT !.MatchID = "up", !.Optional = TRUE]

InitMatch ==
    /\ \E n \in MatchNames, a \in MatchMacs, d \in MatchDrivers :
          match = [Name |-> n, MacAddress |-> a, Driver |-> d]
    /\ cands \in SeqsUpTo(NicPool, MaxCands)
    /\ found = <<>>
    /\ Interfaces = << >>
    /\ Child2Parent = << >>
    /\ Roots = <<>>
    /\ verr = <<>>
    /\ pc = "match"
    /\ todo = {}
    /\ clean = {}
    /\ calls = 1
    /\ prev = NoPrev
    /\ np = EmptyNetplan
    /\ errs = <<>>
    /\ matchChildren = << >>
    /\ dropped = {}
    /\ NoWrite

\* res, err := MatchPhys(m, tmpl, phys)
MatchApply ==
    /\ pc = "match"
    /\ found' = MatchPhys(match, MatchTemplate, cands)
    /\ pc' = "matched"
    /\ UNCHANGED <<Interfaces, Child2Parent, Roots, verr, todo, clean, calls, prev,
                   cvars, wvars, match, cands>>

NextMatch == MatchApply

SpecMatch == InitMatch /\ [][NextMatch]_vars

-----------------------------------------------------------------------------
(* SpecRender: a caller validates a layout, once or again, and hands the   *)
(* accepted layout to systemd.New(l).Write: the loop over s.Roots with     *)
(* the recursion of writeOut.  No file operation fails here.               *)

WriteLayout ==
    /\ pc = "done"
    /\ verr = <<>>
    /\ tmp' = << >>
    /\ written' = {}
    /\ stack' = Roots
    /\ werr' = <<>>
    /\ faults' = MaxFaults
    /\ pc' = "render"
    /\ UNCHANGED <<lvars, mvars, final, before, result>>

NextRender ==
    \/ NextValidate
    \/ WriteLayout
    \/ WriteOut

SpecRender == InitValidate /\ [][NextRender]_vars

-----------------------------------------------------------------------------
(* One run of Compile with every map visited in one fixed order: the       *)
(* steps above, folded.                                                     *)

\* The order of the checks in the reference run
FixedOrder(S) == CHOOSE p \in Perms(S) : TRUE

RECURSIVE FoldDecls(_, _, _, _)
FoldDecls(cs, kind, decls, keys) ==
    IF keys = <<>> \/ cs.panic THEN cs
    ELSE LET k == Head(keys)
             ord == FixedOrder(AllKeys(decls[k]))
         IN FoldDecls(IF kind = "ethernet" THEN EthernetStep(cs, k, decls[k], ord)
                      ELSE OtherStep(cs, kind, k, decls[k], ord),
                      kind, decls, Tail(keys))

RECURSIVE FoldSubs(_, _, _)
FoldSubs(ifs, mc, keys) ==
    IF keys = <<>> THEN ifs ELSE FoldSubs(SubsStep(ifs, mc, Head(keys)), mc, Tail(keys))

RECURSIVE FoldNodes(_, _)
FoldNodes(st, keys) ==
    IF keys = <<>> THEN st ELSE FoldNodes(NodeStep(st, Head(keys)), Tail(keys))

RECURSIVE FoldCyclic(_, _, _)
FoldCyclic(c2p, st, keys) ==
    IF keys = <<>> THEN st ELSE FoldCyclic(c2p, CyclicStep(c2p, st, Head(keys)), Tail(keys))

ValidateRef(ifs) ==
    LET keys == SetToSortedSeq(DOMAIN ifs)
        n == FoldNodes([ifs |-> ifs, c2p |-> << >>, verr |-> <<>>], keys)
        c == FoldCyclic(n.c2p, [roots |-> <<>>, clean |-> {}, verr |-> <<>>], keys)
    IN IF n.verr # <<>>
       THEN [ifs |-> n.ifs, c2p |-> n.c2p, roots |-> <<>>, verr |-> n.verr]
       ELSE [ifs |-> StripMembers(n.ifs), c2p |-> n.c2p,
             roots |-> SortStrings(c.roots), verr |-> c.verr]

CompileRef(n) ==
    LET c0 == [ifs |-> << >>, mc |-> << >>, errs |-> GuardStep(n), dropped |-> {},
               panic |-> FALSE]
        c1 == FoldDecls(c0, "ethernet", n.Ethernets, SetToSortedSeq(DOMAIN n.Ethernets))
        c2 == FoldDecls(c1, "bond", n.Bonds, SetToSortedSeq(DOMAIN n.Bonds))
        c3 == FoldDecls(c2, "bridge", n.Bridges, SetToSortedSeq(DOMAIN n.Bridges))
        c4 == FoldDecls(c3, "vlan", n.Vlans, SetToSortedSeq(DOMAIN n.Vlans))
        v  == ValidateRef(FoldSubs(c4.ifs, c4.mc, SetToSortedSeq(DOMAIN c4.ifs)))
    IN [ifs |-> v.ifs, c2p |-> v.c2p, roots |-> v.roots,
        errs |-> Merge(c4.errs, <<"layout">>, v.verr)]

-----------------------------------------------------------------------------
(* Properties of Layout.Validate                                           *)

Accepted == pc = "done" /\ verr = <<>>

\* p is a parent of c after one or more Child2Parent steps
RECURSIVE ReachUp(_, _)
ReachUp(S, n) ==
    LET T == S \cup UNION {Range(Child2Parent[c]) : c \in S \cap DOMAIN Child2Parent}
    IN IF n = 0 \/ T = S THEN T ELSE ReachUp(T, n - 1)

Ancestors(c) ==
    IF c \in DOMAIN Child2Parent
    THEN ReachUp(Range(Child2Parent[c]), Cardinality(DOMAIN Interfaces))
    ELSE {}

OnCycle(c) == c \in Ancestors(c)

\* C1: in every layout that Validate accepts, no node reaches itself along
\* one or more Child2Parent edges.
C1_AcceptedAcyclic == Accepted => \A c \in DOMAIN Interfaces : ~OnCycle(c)

C1_Witness == Accepted /\ \E c \in DOMAIN Child2Parent : Len(Child2Parent[c]) > 1

\* C2: a second Validate call on a layout the first call accepted returns
\* no error and leaves Roots and Child2Parent as the first call left them.
C2_RevalidateSame ==
    (pc = "done" /\ calls = 2 /\ prev.ok) =>
        /\ verr = <<>>
        /\ Roots = prev.Roots
        /\ Child2Parent = prev.Child2Parent

\* C6: at every step of Validate, a node with more than one recorded parent
\* has only VLAN parents.
C6_MultiParentOnlyVlan ==
    \A c \in DOMAIN Child2Parent :
        Len(Child2Parent[c]) > 1 =>
            \A p \in Range(Child2Parent[c]) :
                p \in DOMAIN Interfaces /\ Interfaces[p].Type = "vlan"

\* some node has several parents while another claim on it was refused
C6_Witness ==
    /\ \E c \in DOMAIN Child2Parent : Len(Child2Parent[c]) > 1
    /\ \E k \in 1..Len(verr) : Len(verr[k]) > 3 /\ verr[k][4] = "is already owned by"

\* Validate returned the messages of the per-node pass
PerNodeError == pc = "done" /\ verr # <<>> /\ verr[1][2] # "Cycle detected"

NoParent == DOMAIN Interfaces \ DOMAIN Child2Parent

\* the members whose claim passed the nesting rule of some parent
Claimed ==
    {c \in DOMAIN Interfaces :
        \E p \in DOMAIN Interfaces :
            /\ Interfaces[p].Type # "physical"
            /\ c \in Range(Interfaces[p].Interfaces)
            /\ Interfaces[p].Type = "bond" => Interfaces[c].Type = "physical"
            /\ Interfaces[p].Type \in {"bridge", "vlan"} => Interfaces[c].Type # Interfaces[p].Type}

\* C10 as stated: after a per-node error Roots lists the nodes without a
\* recorded parent.
C10_RootsPopulatedOnError ==
    PerNodeError => Roots = SetToSortedSeq(NoParent)

\* C10 amended: after a per-node error Child2Parent holds the claims of the
\* per-node pass, and Roots is what it was before the call.
C10_RootsUntouchedOnError ==
    PerNodeError => /\ Roots = prev.Roots
                    /\ DOMAIN Child2Parent = Claimed

C10_Witness == PerNodeError /\ Child2Parent # << >> /\ NoParent # {}

-----------------------------------------------------------------------------
(* Properties of Netplan.Compile                                           *)

Returned == pc = "returned"

\* C4: when Compile has returned and some declaration was left out because
\* its parser failed, the returned error holds at least one message.
C4_DropRecorded == (Returned /\ dropped # {}) => errs # <<>>

\* The declarations of the document, as <<kind, key, body>>
Declared ==
    {<<"ethernet", k>> : k \in DOMAIN np.Ethernets} \cup {<<"bond", k>> : k \in DOMAIN np.Bonds}
    \cup {<<"bridge", k>> : k \in DOMAIN np.Bridges} \cup {<<"vlan", k>> : k \in DOMAIN np.Vlans}

BodyOf(d) ==
    CASE d[1] = "ethernet" -> np.Ethernets[d[2]]
      [] d[1] = "bond" -> np.Bonds[d[2]]
      [] d[1] = "bridge" -> np.Bridges[d[2]]
      [] d[1] = "vlan" -> np.Vlans[d[2]]

\* The keys of the rule tables a declaration of the kind is checked against
KnownKeys(kind) ==
    DOMAIN NetworkChecks \cup
    CASE kind = "ethernet" -> DOMAIN EthernetChecks
      [] kind = "vlan" -> DOMAIN VlanChecksI \cup DOMAIN VlanChecksLI
      [] OTHER -> DOMAIN BBChecks(kind)

UnknownKeys == {d \in Declared : DOMAIN BodyOf(d).v \ KnownKeys(d[1]) # {}}

\* C5: when a declaration holds a key that its rule tables do not list,
\* Compile returns an error.
C5_UnknownKeyRejected == (Returned /\ UnknownKeys # {}) => errs # <<>>

\* C7: in every graph Compile returns without an error, every member of
\* every node is a key of Interfaces.
C7_MembersDefined ==
    (Returned /\ errs = <<>>) =>
        \A n \in DOMAIN Interfaces : Range(Interfaces[n].Interfaces) \subseteq DOMAIN Interfaces

C7_Witness ==
    /\ Returned /\ errs = <<>>
    /\ \E n \in DOMAIN Interfaces : Len(Interfaces[n].Interfaces) > 1
    /\ DOMAIN Interfaces \ (DOMAIN np.Ethernets \cup DOMAIN np.Bonds) # {}

\* C8: whatever order the maps are visited in, Compile returns the graph of
\* the reference run, and the members of every node, every Child2Parent
\* list and Roots are sorted.
C8_SameGraph ==
    Returned =>
        /\ Interfaces = CompileRef(np).ifs
        /\ Child2Parent = CompileRef(np).c2p
        /\ Roots = CompileRef(np).roots
        /\ \A n \in DOMAIN Interfaces : IsSorted(Interfaces[n].Interfaces)
        /\ \A c \in DOMAIN Child2Parent : IsSorted(Child2Parent[c])
        /\ IsSorted(Roots)

C8_Witness ==
    /\ Returned
    /\ Len(Roots) > 1
    /\ \E c \in DOMAIN Child2Parent : Len(Child2Parent[c]) > 1
    /\ \E n \in DOMAIN Interfaces : Len(Interfaces[n].Interfaces) > 1

\* C9: whatever order the maps are visited in, Compile returns the messages
\* of the reference run, in the order of the reference run.
C9_SameMessages == Returned => errs = CompileRef(np).errs

-----------------------------------------------------------------------------
(* Properties of the top-level Compile                                     *)

\* C3: when the top-level Compile has returned an error, the final
\* destination holds exactly the files, with the contents, that it held
\* before the call.
C3_ErrorLeavesDestination == result = "error" => final = before

-----------------------------------------------------------------------------
(* Properties of the messages and of the parsers                           *)

\* The message starts with the kind and the key of declaration d
NamesDeclaration(msg, d) == Len(msg) > 1 /\ msg[1] = d[1] /\ msg[2] = d[2]

\* The messages of Compile itself and of Validate; every other message of
\* the returned error was recorded by the parser of some declaration.
OwnMessages ==
    {"layout", "version", "Wifi interfaces not supported",
     "Duplicate network definition", "Ethernet interface"}

\* C11: every message of the error Compile returns that a parser recorded
\* starts with the kind and the key of a declaration of the document.
C11_MessagesNameDeclaration ==
    Returned =>
        \A i \in 1..Len(errs) :
            errs[i][1] \notin OwnMessages =>
                \E d \in Declared : NamesDeclaration(errs[i], d)

-----------------------------------------------------------------------------
(* Further properties of Layout.Validate                                   *)

\* The nodes reachable from the nodes of S along member lists
RECURSIVE ReachDown(_, _)
ReachDown(S, n) ==
    LET T == S \cup UNION {Range(Interfaces[p].Interfaces) : p \in S \cap DOMAIN Interfaces}
    IN IF n = 0 \/ T = S THEN T ELSE ReachDown(T, n - 1)

\* n is, directly or through a chain of members, its own member
OwnMember(n) ==
    n \in ReachDown(Range(Interfaces[n].Interfaces), Cardinality(DOMAIN Interfaces))

\* The message of Layout.cyclic for a walk that came back to n
CycleMessage(msg, n) ==
    /\ Len(msg) = 3
    /\ msg[2] = "Cycle detected"
    /\ msg[1] = n
    /\ n \in Range(msg[3])

\* C12: when Validate has returned on a graph in which some node is its
\* own member, directly or through a chain, the returned error holds a
\* cycle message for a node that is its own member, with the path walked.
C12_CycleReported ==
    (pc = "done" /\ \E n \in DOMAIN Interfaces : OwnMember(n)) =>
        \E i \in 1..Len(verr) : \E n \in DOMAIN Interfaces :
            OwnMember(n) /\ CycleMessage(verr[i], n)

-----------------------------------------------------------------------------
(* Further properties of Netplan.Compile                                   *)

\* A VLAN declaration without link, without id, or with an id that is not
\* an integer of 0..MaxVlanID
LacksLinkOrId(body) ==
    \/ "link" \notin DOMAIN body.v
    \/ "id" \notin DOMAIN body.v
    \/ ~ValidateInt("id", body.v["id"], Wide(0), Wide(MaxVlanID)).ok

\* C13: when Compile has returned, every VLAN declaration without link,
\* without id or with an id out of range was left out by its parser, and no
\* node of its name is in the graph.
C13_VlanNeedsLinkAndId ==
    Returned =>
        \A k \in DOMAIN np.Vlans :
            LacksLinkOrId(np.Vlans[k]) =>
                <<"vlan", k>> \in dropped /\ k \notin DOMAIN Interfaces

\* The names of the NICs the ethernet declaration k resolves to
NICsOf(k) ==
    LET p == ethernet(np.Ethernets[k], FixedOrder(AllKeys(np.Ethernets[k])))
        nics == IF p.ok THEN matchPhys([p.res EXCEPT !.Intf.MatchID = k], Phys) ELSE <<>>
    IN [j \in 1..Len(nics) |-> nics[j].Name]

\* The member names as written in the declaration of node n
DeclaredMembers(n) ==
    LET body == BodyOf(<<Interfaces[n].Type, n>>).v
    IN IF Interfaces[n].Type = "vlan"
       THEN <<IF "link" \in DOMAIN body THEN Text(body["link"]) ELSE "">>
       ELSE IF "interfaces" \in DOMAIN body THEN StringSlice(body["interfaces"]).res ELSE <<>>

IsResolved(name) == name \in DOMAIN np.Ethernets /\ NICsOf(name) # <<>>

RECURSIVE Expanded(_)
Expanded(names) ==
    IF names = <<>> THEN <<>>
    ELSE (IF IsResolved(Head(names)) THEN NICsOf(Head(names)) ELSE <<Head(names)>>)
         \o Expanded(Tail(names))

Compound == {n \in DOMAIN Interfaces : Interfaces[n].Type # "physical"}

ParentsRecorded(n) ==
    \A j \in 1..Len(DeclaredMembers(n)) :
        IsResolved(DeclaredMembers(n)[j]) =>
            \A m \in Range(NICsOf(DeclaredMembers(n)[j])) :
                m \in DOMAIN Child2Parent /\ n \in Range(Child2Parent[m])

\* C14 as written: in the graph Compile returns, the members of every bond,
\* bridge and VLAN are the sorted list of its declared member names with
\* every name of a resolved ethernet declaration replaced by the NICs it
\* resolved to, and every NIC that replaced such a name has the node among
\* its parents in Child2Parent.
C14_ParentsAlways ==
    Returned =>
        \A n \in Compound :
            /\ Interfaces[n].Interfaces = SortStrings(Expanded(DeclaredMembers(n)))
            /\ ParentsRecorded(n)

\* C14, amended: the members of every bond, bridge and VLAN of the returned
\* graph are the sorted, substituted list of its declared members; the NICs
\* that replaced a name have the node among their parents when graph
\* validation reported no error.
C14_MembersSubstituted ==
    Returned =>
        \A n \in Compound :
            /\ Interfaces[n].Interfaces = SortStrings(Expanded(DeclaredMembers(n)))
            /\ verr = <<>> => ParentsRecorded(n)

\* a bridge or bond whose declared member is an ethernet key that resolved
\* to two NICs was compiled without error
C14_Witness ==
    /\ Returned /\ errs = <<>>
    /\ \E n \in Compound : \E j \in 1..Len(DeclaredMembers(n)) :
          /\ IsResolved(DeclaredMembers(n)[j])
          /\ Len(NICsOf(DeclaredMembers(n)[j])) > 1
          /\ DeclaredMembers(n)[j] \notin DOMAIN Interfaces


\* The ethernet declarations that parsed and matched no NIC
Unresolved ==
    {k \in DOMAIN np.Ethernets : <<"ethernet", k>> \notin dropped /\ NICsOf(k) = <<>>}

\* C15: an ethernet declaration that resolves to no NIC makes Compile return
\* an error naming it, adds no node, registers no match children, and its
\* key stays as written in the member list of every node that names it.
C15_UnresolvedContributesNothing ==
    Returned =>
        \A k \in Unresolved :
            /\ \E i \in 1..Len(errs) :
                  errs[i] = <<"Ethernet interface", k, "does not resolve to any interfaces">>
            /\ k \notin DOMAIN matchChildren
            /\ k \notin DOMAIN Interfaces
            /\ \A n \in DOMAIN Interfaces : Interfaces[n].MatchID # k
            /\ \A n \in Compound :
                  k \in Range(DeclaredMembers(n)) => k \in Range(Interfaces[n].Interfaces)

\* an unresolved ethernet key is named as a member by a node of the graph
C15_Witness ==
    /\ Returned
    /\ \E k \in Unresolved : \E n \in Compound : k \in Range(DeclaredMembers(n))


\* The declarations that produce a node called n: an ethernet declaration
\* one of whose NICs is n, or a bond, bridge or VLAN declaration of key n
\* that parsed
Producers(n) ==
    {d \in Declared \ dropped :
        IF d[1] = "ethernet" THEN n \in Range(NICsOf(d[2])) ELSE d[2] = n}

KindOrder == <<"ethernet", "bond", "bridge", "vlan">>

KindRank(kind) == CHOOSE i \in 1..Len(KindOrder) : KindOrder[i] = kind

\* The order in which Compile processes declarations
ProcessedBefore(d, e) ==
    \/ KindRank(d[1]) < KindRank(e[1])
    \/ d[1] = e[1] /\ Rank(d[2]) < Rank(e[2])

FirstProducer(n) ==
    CHOOSE d \in Producers(n) : \A e \in Producers(n) \ {d} : ProcessedBefore(d, e)

Duplicated == {n \in Range(NameOrder) : Cardinality(Producers(n)) > 1}

\* C16: when two declarations produce the same node name, Compile returns
\* an error naming the duplicate, and the node of that name in the graph is
\* the one produced by the declaration processed first.
C16_FirstProducerKept ==
    Returned =>
        \A n \in Duplicated :
            /\ \E i \in 1..Len(errs) :
                  errs[i][1] = "Duplicate network definition" /\ errs[i][2] = n
            /\ n \in DOMAIN Interfaces
            /\ Interfaces[n].MatchID = FirstProducer(n)[2]
            /\ Interfaces[n].Type = IF FirstProducer(n)[1] = "ethernet" THEN "physical"
                                    ELSE FirstProducer(n)[1]

\* two declarations that produce the same node name have been compiled, the
\* first of them an ethernet declaration
C16_Witness ==
    /\ Returned
    /\ \E n \in Duplicated : FirstProducer(n)[1] = "ethernet"


\* The verdict of the parser of its kind on declaration d
Valid(d) ==
    LET v == BodyOf(d)
        ord == FixedOrder(AllKeys(v))
    IN CASE d[1] = "ethernet" -> ethernet(v, ord).ok
         [] d[1] = "vlan" -> vlan(v, ord).ok
         [] OTHER -> bb(d[1], v, ord).ok

\* Some declaration was rejected by its parser, matched no NIC or produced
\* a name that was already taken
SomeFailure == dropped # {} \/ Unresolved # {} \/ Duplicated # {}

HasUndefinedMember ==
    \E n \in Compound : \E m \in Range(Interfaces[n].Interfaces) : m \notin DOMAIN Interfaces

\* C17: a failure in one declaration never stops the processing of the
\* others.  Compile does not end by a panic; and when it has returned after
\* a failure in some declaration, it has parsed every declaration, the
\* graph it returns holds the node of every bond, bridge and VLAN
\* declaration that is valid and the NICs of every valid ethernet
\* declaration that resolved, Validate has run on that graph (its messages
\* are part of the returned error, an undefined member is reported, the
\* members of an accepted graph have their parents), and the error it
\* returns with the graph is not nil.
C17_FailureNeverStops ==
    /\ pc # "panic"
    /\ (Returned /\ SomeFailure) =>
          /\ dropped = {d \in Declared : ~Valid(d)}
          /\ \A d \in Declared :
                Valid(d) =>
                   IF d[1] = "ethernet"
                   THEN NICsOf(d[2]) # <<>> =>
                           /\ d[2] \in DOMAIN matchChildren
                           /\ Range(NICsOf(d[2])) \subseteq DOMAIN Interfaces
                   ELSE d[2] \in DOMAIN Interfaces
          /\ \A i \in 1..Len(verr) : \E j \in 1..Len(errs) : errs[j] = <<"layout">> \o verr[i]
          /\ HasUndefinedMember => \E j \in 1..Len(errs) : errs[j][1] = "layout"
          /\ verr = <<>> =>
                \A n \in Compound : Range(Interfaces[n].Interfaces) \subseteq DOMAIN Child2Parent
          /\ errs # <<>>


Unsupported == np.Wifis \/ np.Version # SupportedVersion

\* C18: when the document has a wifis section or a version other than 2,
\* Compile returns without having parsed or added any declaration: at no
\* point of the run does the graph hold a node, is a declaration recorded
\* as rejected by its parser, or are match children registered.
C18_RejectedBeforeDeclarations ==
    Unsupported => Interfaces = << >> /\ dropped = {} /\ matchChildren = << >>


(* Properties of the per-node pass of Layout.Validate *)
\* The members on which node k makes a claim: those that are defined and
\* pass the nesting rule of k's type
ClaimsOf(k) ==
    IF Interfaces[k].Type = "physical" THEN {}
    ELSE {m \in Range(Interfaces[k].Interfaces) \cap DOMAIN Interfaces :
            /\ Interfaces[k].Type = "bond" => Interfaces[m].Type = "physical"
            /\ Interfaces[k].Type \in {"bridge", "vlan"} => Interfaces[m].Type # Interfaces[k].Type}

\* m has a recorded parent, and it is not the case that k is a VLAN and
\* every recorded parent of m is a VLAN
MustRefuse(m, k) ==
    /\ m \in DOMAIN Child2Parent
    /\ ~(Interfaces[k].Type = "vlan"
         /\ \A o \in Range(Child2Parent[m]) : Interfaces[o].Type = "vlan")

OwnershipMessage(msg, m, o, k) ==
    /\ Len(msg) = 7
    /\ msg[3] = m /\ msg[4] = "is already owned by" /\ msg[5] = o /\ msg[7] = k

\* C19: in the step of the per-node pass that validates node k, a claim of
\* k on member m adds an ownership message exactly when m has a recorded
\* parent and not (k is a VLAN and every recorded parent of m is a VLAN);
\* the message names m, a recorded parent and k, the parents of m are then
\* left as they were, and otherwise k is among the parents of m afterwards.
C19_OwnershipErrorIff ==
    [][(pc = "nodes" /\ todo # {}) =>
         \A m \in ClaimsOf(NextMember) :
            /\ MustRefuse(m, NextMember) <=>
                  \E i \in (Len(verr) + 1)..Len(verr') : verr'[i][4] = "is already owned by"
                                                         /\ verr'[i][3] = m
            /\ MustRefuse(m, NextMember) =>
                  /\ \E i \in (Len(verr) + 1)..Len(verr') : \E o \in Range(Child2Parent[m]) :
                        OwnershipMessage(verr'[i], m, o, NextMember)
                  /\ Child2Parent'[m] = Child2Parent[m]
                  /\ NextMember \notin Range(Child2Parent'[m])
            /\ ~MustRefuse(m, NextMember) =>
                  m \in DOMAIN Child2Parent' /\ NextMember \in Range(Child2Parent'[m])]_vars

\* a bond was refused a member owned by a VLAN, and a second VLAN was then
\* recorded as a parent of the same member
C19_Witness ==
    /\ pc = "done"
    /\ \E i \in 1..Len(verr) :
          /\ Len(verr[i]) = 7 /\ verr[i][4] = "is already owned by"
          /\ verr[i][3] \in DOMAIN Child2Parent
          /\ Len(Child2Parent[verr[i][3]]) > 1
          /\ Interfaces[verr[i][7]].Type = "bond"


\* The defined members of node p that its type does not admit
Offending(p) ==
    {m \in Range(Interfaces[p].Interfaces) \cap DOMAIN Interfaces :
        \/ Interfaces[p].Type = "bond" /\ Interfaces[m].Type # "physical"
        \/ Interfaces[p].Type = "bridge" /\ Interfaces[m].Type = "bridge"
        \/ Interfaces[p].Type = "vlan" /\ Interfaces[m].Type = "vlan"}

NestingMessage(msg, p, m) ==
    /\ Len(msg) > 2 /\ msg[2] = p
    /\ \/ Len(msg) = 6 /\ msg[3] = p /\ msg[4] = "refers to" /\ msg[5] = m
                       /\ msg[6] = "which is not a physical interface"
       \/ Len(msg) = 5 /\ msg[3] = p /\ msg[4] = "cannot be built on" /\ msg[5] = m

\* C20: when Validate has returned, a graph in which a bond has a member
\* that is not physical, a bridge has a bridge as member or a VLAN has a
\* VLAN as member has been rejected, with a message that names the parent
\* and the offending member; an accepted graph has no such member.
C20_NestingRules ==
    pc = "done" =>
        \A p \in DOMAIN Interfaces : \A m \in Offending(p) :
            /\ ~Accepted
            /\ \E i \in 1..Len(verr) : NestingMessage(verr[i], p, m)

\* Validate has returned on a graph in which a VLAN is built on a VLAN
C20_Witness ==
    /\ pc = "done"
    /\ \E p \in DOMAIN Interfaces : Interfaces[p].Type = "vlan" /\ Offending(p) # {}


-----------------------------------------------------------------------------
(* Properties of the writers                                               *)

Rendering == pc \in {"render", "rhel"}

RenderError == \E i \in 1..Len(werr) : werr[i][1] = "Error creating"

\* C21: while Systemd.Write or Rhel.Write is rendering the interfaces into
\* the temporary directory the final destination holds what it held before
\* the call, and when a render step recorded an error the call ends with
\* an error and the final destination as it was before the call.
C21_RenderBeforeReplace ==
    /\ Rendering => final = before
    /\ (pc = "exit" /\ RenderError) => result = "error" /\ final = before

\* a render step of a writer failed while the destination held old files
\* and another interface was rendered into the temporary directory
C21_Witness ==
    /\ pc = "exit" /\ RenderError
    /\ before # << >>
    /\ Cardinality(DOMAIN Interfaces) > 1


-----------------------------------------------------------------------------
(* Properties of the graph Netplan.Compile returns without error           *)

Compiled == Returned /\ errs = <<>>

\* The nodes that some bond, bridge or VLAN lists as a member
Listed == UNION {Range(Interfaces[n].Interfaces) : n \in Compound}

\* C22: when Compile has returned without error, Roots is the sorted list,
\* without repetition, of the nodes that have no entry in Child2Parent, and
\* a physical node that no bond, bridge or VLAN lists as a member is in it.
C22_RootsSortedNoParent ==
    Compiled =>
        /\ Roots = SetToSortedSeq(DOMAIN Interfaces \ DOMAIN Child2Parent)
        /\ \A n \in DOMAIN Interfaces :
              (Interfaces[n].Type = "physical" /\ n \notin Listed) => n \in Range(Roots)

\* a graph was compiled in which one NIC is a member and another NIC and a
\* compound node are roots
C22_Witness ==
    /\ Compiled
    /\ Len(Roots) > 1
    /\ \E n \in Range(Roots) : Interfaces[n].Type = "physical"
    /\ \E n \in DOMAIN Child2Parent : Interfaces[n].Type = "physical"


-----------------------------------------------------------------------------
(* Properties of the graph Layout.Validate accepts                         *)

\* The members of the bonds and bridges of the graph
BondBridgeMembers ==
    UNION {Range(Interfaces[n].Interfaces) :
           n \in {p \in DOMAIN Interfaces : Interfaces[p].Type \in {"bond", "bridge"}}}

VlanBases ==
    UNION {Range(Interfaces[n].Interfaces) :
           n \in {p \in DOMAIN Interfaces : Interfaces[p].Type = "vlan"}}

\* C23: in a graph Validate has accepted, every node that is a member of a
\* bond or of a bridge has no Network, and every other node, the bases of
\* VLANs among them, has the Network it was handed to Validate with.
C23_MembersLoseNetwork ==
    Accepted =>
        \A n \in DOMAIN Interfaces :
            IF n \in BondBridgeMembers THEN Interfaces[n].Network = NilNetwork
            ELSE Interfaces[n].Network = NetworkOf(EmptyMap)

\* an accepted graph with a member of a bond or bridge and a node that is
\* only the base of a VLAN
C23_Witness ==
    /\ Accepted
    /\ BondBridgeMembers # {}
    /\ VlanBases \ BondBridgeMembers # {}


-----------------------------------------------------------------------------
(* Properties of MatchPhys                                                 *)

\* The condition under which candidate c is to be returned for match m
Satisfies(m, c) ==
    /\ m.Driver = "" \/ Glob2RE(m.Driver, c.Driver)
    /\ m.MacAddress = "" \/ m.MacAddress = c.HardwareAddr
    /\ IF m.Name = "bootif" THEN c.BootIf
       ELSE \/ m.Name = ""
            \/ Glob2RE(m.Name, c.Name)
            \/ Glob2RE(m.Name, c.StableName)
            \/ Glob2RE(m.Name, c.OrdinalName)

Wanted(c) == Satisfies(match, c)

\* C24: MatchPhys returns, in the order of the candidates, one physical
\* node for each candidate that satisfies the match, with the name and the
\* hardware address of the candidate and the other fields of the template;
\* the candidate list is never changed.
C24_MatchPhysSelects ==
    /\ [](pc = "matched" =>
            /\ Len(found) = Len(SelectSeq(cands, Wanted))
            /\ \A j \in 1..Len(found) :
                  found[j] = [MatchTemplate EXCEPT
                                 !.Name = SelectSeq(cands, Wanted)[j].Name,
                                 !.Type = "physical",
                                 !.CurrentHwAddr = SelectSeq(cands, Wanted)[j].HardwareAddr])
    /\ [][cands' = cands]_vars

\* of two candidates the second alone was returned, matched by a name
\* pattern on its stable or ordinal name
C24_Witness ==
    /\ pc = "matched"
    /\ Len(cands) = 2 /\ Len(found) = 1
    /\ found[1].Name = cands[2].Name
    /\ match.Name \notin {"", "bootif"}
    /\ ~Glob2RE(match.Name, cands[2].Name)


-----------------------------------------------------------------------------
(* Properties of ValidateAndMarshal                                        *)

\* The rule tables the parser of a kind hands to ValidateAndMarshal
TablesOf(kind) ==
    CASE kind = "ethernet" -> <<EthernetChecks, NetworkChecks>>
      [] kind = "vlan" -> <<VlanChecksLI, VlanChecksI, NetworkChecks>>
      [] OTHER -> <<BBChecks(kind), NetworkChecks>>

\* The fields of body that table T has a rule for
Present(body, T) == DOMAIN T \cap DOMAIN body.v

\* The fields of body that their checker of table T finds not valid
InvalidFields(body, T, ord) ==
    {k \in Present(body, T) : ~RunCheck(T[k], k, body.v[k], ord).ok}

NamesField(msg, k) == msg[1] = k \/ (Len(msg) > 1 /\ msg[2] = k)

\* C25: ValidateAndMarshal on a declaration with n fields that are not
\* valid returns false and leaves a message for each of the n fields in
\* the collector, in whatever order the rule table is ranged over.
C25_MessagePerInvalidField ==
    pc = "guard" =>
        \A d \in Declared : \A t \in 1..Len(TablesOf(d[1])) :
            \A ord \in Perms(AllKeys(BodyOf(d))) :
                \A k \in InvalidFields(BodyOf(d), TablesOf(d[1])[t], ord) :
                    /\ ~ValidateAndMarshal(BodyOf(d), TablesOf(d[1])[t], ord).ok
                    /\ \E i \in 1..Len(ValidateAndMarshal(BodyOf(d), TablesOf(d[1])[t], ord).msgs) :
                          NamesField(ValidateAndMarshal(BodyOf(d), TablesOf(d[1])[t], ord).msgs[i], k)


-----------------------------------------------------------------------------
(* Child2Parent and the membership relation                                *)

\* How often p occurs in the list s
Occurrences(s, p) == Cardinality({i \in 1..Len(s) : s[i] = p})

ParentsOf(c) == IF c \in DOMAIN Child2Parent THEN Child2Parent[c] ELSE <<>>

\* C26: when Validate has returned no error, p occurs in Child2Parent[c]
\* exactly once if c is a member of p, and not at all otherwise.
C26_InverseOfMembers ==
    Accepted =>
        \A c \in DOMAIN Interfaces : \A p \in DOMAIN Interfaces :
            Occurrences(ParentsOf(c), p) =
                IF c \in Range(Interfaces[p].Interfaces) THEN 1 ELSE 0


-----------------------------------------------------------------------------
(* The members of the VLANs of a compiled graph                            *)

\* C27: in a graph Compile returns without error every VLAN node has
\* exactly one member.
C27_VlanHasOneMember ==
    Compiled =>
        \A n \in DOMAIN Interfaces :
            Interfaces[n].Type = "vlan" => Len(Interfaces[n].Interfaces) = 1


-----------------------------------------------------------------------------
(* The origin of the physical nodes of a compiled graph                    *)

\* C28: every physical node of the graph Compile returns is one of the NICs
\* an ethernet declaration resolved to and carries the key of that
\* declaration as MatchID.
C28_PhysicalFromEthernet ==
    Returned =>
        \A n \in DOMAIN Interfaces :
            Interfaces[n].Type = "physical" =>
                \E k \in DOMAIN np.Ethernets :
                    n \in Range(NICsOf(k)) /\ Interfaces[n].MatchID = k


-----------------------------------------------------------------------------
(* Termination of Layout.Validate                                          *)

\* The phases Validate has left
PhaseRank ==
    CASE pc = "begin" -> 3 [] pc = "nodes" -> 2 [] pc \in {"cyclic", "walk"} -> 1 [] OTHER -> 0

\* The longest list of parents
Fanout ==
    IF DOMAIN Child2Parent = {} THEN 0
    ELSE LET c == CHOOSE k \in DOMAIN Child2Parent :
                    \A o \in DOMAIN Child2Parent : Len(Child2Parent[o]) <= Len(Child2Parent[k])
         IN Len(Child2Parent[c])

\* The calls a call of cyclic can lead to at most, itself counted, when d
\* nodes with parents are not on its path and no node has more than f
\* parents: a call that does not return at once makes at most f calls,
\* each with one node more on its path.
RECURSIVE CallsUnder(_, _)
CallsUnder(d, f) == IF d <= 0 THEN 1 ELSE 1 + f * CallsUnder(d - 1, f)

RECURSIVE PendingLeft(_)
PendingLeft(s) ==
    IF s = <<>> THEN 0
    ELSE CallsUnder(Cardinality(DOMAIN Child2Parent) - Len(Head(s).working), Fanout)
         + PendingLeft(Tail(s))

\* What the pending calls leave in clean and in the collector when each is
\* run to its end by the recursion of cyclic
RECURSIVE cyclicPending(_, _, _, _)
cyclicPending(c2p, s, cl, msgs) ==
    IF s = <<>> THEN [clean |-> cl, msgs |-> msgs]
    ELSE LET r == cyclic(c2p, Head(s).intf, Head(s).working, cl, msgs)
         IN cyclicPending(c2p, Tail(s), r.clean, r.msgs)

\* C29: every call of Validate returns, whether the walk of cyclic meets a
\* cycle or a node with several parents or neither.  Every step of a call,
\* each call of cyclic being one step, takes Validate to a later phase, or
\* leaves its loop fewer keys to visit, or leaves the walk strictly fewer
\* calls it can still make; the path of every pending call repeats no node
\* and holds only nodes that have parents, so that no path is longer than
\* the number of nodes; and a call changes nothing in what the recursion
\* of cyclic computes from the calls that are pending.
C29_ValidateTerminates ==
    [][pc # "done" =>
         /\ \/ PhaseRank' < PhaseRank
            \/ PhaseRank' = PhaseRank /\ Cardinality(todo') < Cardinality(todo)
            \/ /\ PhaseRank' = PhaseRank
               /\ todo' = todo
               /\ PendingLeft(stack') < PendingLeft(stack)
         /\ \A i \in 1..Len(stack') :
               /\ Cardinality(Range(stack'[i].working)) = Len(stack'[i].working)
               /\ Range(stack'[i].working) \subseteq DOMAIN Child2Parent
         /\ pc = "walk" =>
               cyclicPending(Child2Parent, stack', clean', verr')
                 = cyclicPending(Child2Parent, stack, clean, verr)]_vars

\* Validate has returned after walks, made call by call, that met a cycle
\* and a node with several parents
C29_Witness ==
    /\ pc = "done"
    /\ todo = {}
    /\ \E i \in 1..Len(verr) : verr[i][2] = "Cycle detected"
    /\ \E c \in DOMAIN Child2Parent : Len(Child2Parent[c]) > 1

-----------------------------------------------------------------------------
(* The traversal of Systemd.Write                                          *)

\* The calls of writeOut still to come at most: every node not yet written
\* can push its members, every pending call is one call.
LongestMembers ==
    IF DOMAIN Interfaces = {} THEN 0
    ELSE LET n == CHOOSE k \in DOMAIN Interfaces :
                    \A o \in DOMAIN Interfaces :
                        Len(Interfaces[o].Interfaces) <= Len(Interfaces[k].Interfaces)
         IN Len(Interfaces[n].Interfaces)

CallsLeft ==
    Cardinality(DOMAIN Interfaces \ written) * (LongestMembers + 1) + Len(stack)

FilesOf(n) == {f \in DOMAIN tmp : f[1] = n}

\* C30: on a layout Validate accepted, the traversal of Systemd.Write from
\* Roots through the members ends and renders every node exactly once:
\* every call of writeOut leaves strictly fewer calls to come; a node is
\* rendered only while it has no file yet, and a call for a written node
\* renders nothing; when no call is pending, every node of the layout is
\* written and has its two files.
C30_TraversalRendersOnce ==
    [][pc = "render" /\ stack # <<>> =>
         /\ CallsLeft' >= 0
         /\ CallsLeft' < CallsLeft
         /\ Head(stack) \in written => tmp' = tmp /\ written' = written
         /\ Head(stack) \notin written =>
               /\ FilesOf(Head(stack)) = {}
               /\ written' = written \cup {Head(stack)}
               /\ DOMAIN tmp' = DOMAIN tmp \cup DOMAIN Rendered(Interfaces[Head(stack)])
         /\ stack' = <<>> =>
               /\ written' = DOMAIN Interfaces
               /\ DOMAIN tmp' = UNION {DOMAIN Rendered(Interfaces[n]) : n \in DOMAIN Interfaces}]_vars

\* The traversal has ended on a layout with a node that has several parents
\* and with a name repeated in Roots.
C30_Witness ==
    /\ pc = "render"
    /\ stack = <<>>
    /\ written = DOMAIN Interfaces
    /\ \E c \in DOMAIN Child2Parent : Cardinality(Range(Child2Parent[c])) > 1
    /\ Cardinality(Range(Roots)) < Len(Roots)

====
